---- MODULE Spec2Model ----
(***************************************************************************)
(* Job portal backend: the ingestion orchestrator (scheduler.py), the      *)
(* storage operations (crud.py) over the jobs table (models.py), the       *)
(* three-phase search of get_jobs (crud.py), the read endpoints (main.py)  *)
(* and the provider adapters with their helpers (scrapers/).               *)
(*                                                                         *)
(* Nullable columns are options: <<>> is SQL NULL, <<v>> is the value v.   *)
(* Time is counted in days.                                                *)
(***************************************************************************)
EXTENDS Integers, Sequences, FiniteSets, TLC

VARIABLES
    jobs,               \* the rows of table "jobs" (models.py Job)
    nextId,             \* source of fresh surrogate ids (uuid.uuid4)
    now,                \* the wall clock, in days
    ticks,              \* how often the clock advanced (bounded)
    runs,               \* how many ingestion runs were started (bounded)
    baseId,             \* nextId of the initial state: rows below it predate every run
    outputs,            \* SpecRepeat: the fixed response of each adapter; <<>> otherwise
    pc,                 \* per runner: position inside run_all_scrapers
    idx,                \* per runner: index of the current scraper in the scrapers list
    batch,              \* per runner: the local `jobs` list fetch_jobs returned
    pos,                \* per runner: next element of batch that upsert_jobs_bulk handles
    inserted,           \* per runner: the local counter of upsert_jobs_bulk
    results,            \* per runner: the local `results` list
    started_at,         \* per runner: the local started_at
    trace,              \* per runner: the steps the current run has taken, in order
    last_scrape_status, \* scheduler.py module global
    search,             \* the last get_jobs call: its arguments and its answer
    call,               \* the last call of another read or of an adapter helper, with its answer
    hashseed,           \* the string hash seed of the running process (PYTHONHASHSEED)
    session,            \* per runner: the state of its storage session db
    providers           \* SpecFetch: per adapter, its credentials and what its provider answers

vars == <<jobs, nextId, now, ticks, runs, baseId, outputs, pc, idx, batch, pos,
          inserted, results, started_at, trace, last_scrape_status, search, call, hashseed,
          session, providers>>

-----------------------------------------------------------------------------
(* Bounds of the model *)

MaxBatch == 2       \* longest list a fetch_jobs call returns
MaxTicks == 2       \* clock advances per behaviour
MaxRuns == 2        \* ingestion runs started per behaviour
MaxQueryLen == 2    \* words of a drawn search text

(* Program constants *)

ExpireDays == 45    \* expire_old_jobs(db, days=45)
MinWordLen == 2     \* _domain_words keeps words with len(w) > 2

-----------------------------------------------------------------------------
(* Options *)

None == <<>>
Some(v) == <<v>>
IsNone(o) == o = <<>>
Val(o) == o[1]

SeqsUpTo(S, n) == UNION { [1..k -> S] : k \in 0..n }

Range(s) == { s[i] : i \in DOMAIN s }

-----------------------------------------------------------------------------
(* Text search of the storage engine (PostgreSQL 'english' configuration), *)
(* as far as get_jobs and update_search_vectors use it.  A text is the     *)
(* sequence of its whitespace separated words.                             *)

\* str.lower(), and the lower-casing of the engine's parser
Lower(w) ==
    CASE w = "Senior" -> "senior"
      [] w = "Backend" -> "backend"
      [] w = "Engineer" -> "engineer"
      [] w = "Python" -> "python"
      [] w = "California" -> "california"
      [] w = "Texas" -> "texas"
      [] OTHER -> w

\* len(w) of the lower-cased words of the vocabulary
WordLen(w) ==
    CASE w = "ai" -> 2
      [] w = "the" -> 3
      [] w = "senior" -> 6
      [] w = "backend" -> 7
      [] w = "engineer" -> 8
      [] w = "engineers" -> 9
      [] w = "python" -> 6
      [] w = "ninja" -> 5
      [] w = "developer" -> 9
      [] OTHER -> 4

\* stop words of the english dictionary (the ones the vocabulary holds)
StopWords == {"the", "a", "and", "or", "of"}

\* the english snowball stemmer on the vocabulary
Stem(w) ==
    CASE w = "engineer" -> "engin"
      [] w = "engineers" -> "engin"
      [] w = "developer" -> "develop"
      [] w = "developers" -> "develop"
      [] w = "texas" -> "texa"
      [] OTHER -> w

\* the lexemes the engine keeps of a text: lower-cased, stop words dropped, stemmed
Lexemes(text) ==
    { Stem(Lower(text[i])) : i \in { j \in DOMAIN text : Lower(text[j]) \notin StopWords } }

\* to_tsvector('english', text)
to_tsvector(text) == Lexemes(text)

\* plainto_tsquery('english', text): every lexeme is required
plainto_tsquery(text) == [op |-> "and", lex |-> Lexemes(text)]

\* websearch_to_tsquery('english', " OR ".join(words)): any lexeme suffices
websearch_to_tsquery_or(words) == [op |-> "or", lex |-> Lexemes(words)]

\* search_vector @@ tsquery; NULL @@ q is not true, and a query without
\* lexemes matches nothing
Matches(sv, tsq) ==
    /\ ~IsNone(sv)
    /\ tsq.lex # {}
    /\ IF tsq.op = "and" THEN tsq.lex \subseteq Val(sv)
                         ELSE tsq.lex \cap Val(sv) # {}

-----------------------------------------------------------------------------
(* The listings the providers offer: the field values an adapter's         *)
(* _parse_job puts into a job dict, besides source, external_id, posted_at *)

ContentSBE ==
    [title |-> <<"Senior", "Backend", "Engineer">>, description |-> <<>>, company |-> "Acme",
     category |-> "Backend Development", location_state |-> Some("California"),
     work_type |-> "onsite", experience_level |-> "senior",
     salary_min |-> Some(80000), salary_max |-> Some(100000)]

ContentBPN ==
    [title |-> <<"Backend", "developer">>, description |-> <<"Python", "ninja">>,
     company |-> "Acme",
     category |-> "Backend Development", location_state |-> None,
     work_type |-> "remote", experience_level |-> "mid",
     salary_min |-> None, salary_max |-> None]

ContentAI ==
    [title |-> <<"ai", "engineers">>, description |-> <<"the", "python">>,
     company |-> "Globex",
     category |-> "Other Tech", location_state |-> Some("Texas"),
     work_type |-> "hybrid", experience_level |-> "mid",
     salary_min |-> None, salary_max |-> Some(93600)]

Contents == {ContentSBE, ContentBPN, ContentAI}

\* the scrapers list of run_all_scrapers, by source_name
Scrapers == <<"usajobs", "adzuna", "themuse", "remotive", "google_jobs">>

\* adapters whose fetch_jobs drops a repeated external_id (seen_ids)
Dedupes == {"usajobs", "google_jobs"}

\* the job dict an adapter's _parse_job returns
JobData(source, ext, c, posted) ==
    [source |-> source, external_id |-> ext,
     title |-> c.title, company |-> c.company, description |-> c.description,
     category |-> c.category,
     location_state |-> c.location_state, work_type |-> c.work_type,
     experience_level |-> c.experience_level,
     salary_min |-> c.salary_min, salary_max |-> c.salary_max,
     posted_at |-> Some(posted), is_active |-> TRUE]

-----------------------------------------------------------------------------
(* Storage operations (crud.py) on a table: a set of rows *)

KeyOf(r) == <<r.source, r.external_id>>

\* the row INSERT stores for job_data: surrogate id, search_vector NULL
NewRow(job_data, id) ==
    [id |-> id, source |-> job_data.source, external_id |-> job_data.external_id,
     title |-> job_data.title, company |-> job_data.company,
     description |-> job_data.description,
     category |-> job_data.category, location_state |-> job_data.location_state,
     work_type |-> job_data.work_type, experience_level |-> job_data.experience_level,
     salary_min |-> job_data.salary_min, salary_max |-> job_data.salary_max,
     posted_at |-> job_data.posted_at, is_active |-> job_data.is_active,
     search_vector |-> None]

\* the unique index idx_jobs_source_external finds a row with job_data's key
Conflict(tbl, job_data) == \E r \in tbl : KeyOf(r) = KeyOf(job_data)

\* mutant of upsert_job: a plain INSERT, no ON CONFLICT DO NOTHING, no unique index
upsert_job_plain(tbl, job_data, id) ==
    [tbl |-> tbl \cup {NewRow(job_data, id)}, ret |-> TRUE]

\* mutant of upsert_job: ON CONFLICT DO UPDATE (overwrites the stored row's fields)
upsert_job_update(tbl, job_data, id) ==
    IF Conflict(tbl, job_data)
    THEN [tbl |-> { IF KeyOf(r) = KeyOf(job_data)
                    THEN [NewRow(job_data, r.id) EXCEPT !.search_vector = r.search_vector]
                    ELSE r : r \in tbl },
          ret |-> FALSE]
    ELSE [tbl |-> tbl \cup {NewRow(job_data, id)}, ret |-> TRUE]

\* upsert_job: INSERT ... ON CONFLICT (source, external_id) DO NOTHING; commit;
\* returns rowcount > 0
upsert_job(tbl, job_data, id) ==
    IF Conflict(tbl, job_data)
    THEN [tbl |-> tbl, ret |-> FALSE]
    ELSE [tbl |-> tbl \cup {NewRow(job_data, id)}, ret |-> TRUE]

\* the text update_search_vectors indexes (company and city are not modelled)
Document(r) ==
    r.title \o r.description \o (IF IsNone(r.location_state) THEN <<>> ELSE r.location_state)

\* mutant of update_search_vectors: the UPDATE matches no row
update_search_vectors_none(tbl) == tbl

\* update_search_vectors: UPDATE jobs SET search_vector = to_tsvector(...)
\* WHERE search_vector IS NULL
update_search_vectors(tbl) ==
    { IF IsNone(r.search_vector)
      THEN [r EXCEPT !.search_vector = Some(to_tsvector(Document(r)))]
      ELSE r : r \in tbl }

\* posted_at < cutoff in SQL: not true of NULL
Before(posted_at, cutoff) == ~IsNone(posted_at) /\ Val(posted_at) < cutoff

\* the rows expire_old_jobs updates at time t
ExpireSet(tbl, t, days) ==
    { r \in tbl : Before(r.posted_at, t - days) /\ r.is_active }

\* mutant of expire_old_jobs: the cutoff comparison is <= instead of <
expire_old_jobs_le(tbl, t, days) ==
    LET hit == { r \in tbl : Before(r.posted_at, t - days + 1) /\ r.is_active }
    IN  [tbl |-> { IF r \in hit THEN [r EXCEPT !.is_active = FALSE] ELSE r : r \in tbl },
         updated |-> Cardinality(hit)]

\* mutant of expire_old_jobs: flips the flag of the rows it selects
expire_old_jobs_flip(tbl, t, days) ==
    LET hit == { r \in tbl : Before(r.posted_at, t - days) }
    IN  [tbl |-> { IF r \in hit THEN [r EXCEPT !.is_active = ~r.is_active] ELSE r : r \in tbl },
         updated |-> Cardinality(hit)]

\* expire_old_jobs: UPDATE jobs SET is_active = false
\* WHERE posted_at < now - days AND is_active; returns the number of rows updated
expire_old_jobs(tbl, t, days) ==
    LET hit == ExpireSet(tbl, t, days)
    IN  [tbl |-> { IF r \in hit THEN [r EXCEPT !.is_active = FALSE] ELSE r : r \in tbl },
         updated |-> Cardinality(hit)]

-----------------------------------------------------------------------------
(* What a provider can answer: the listings it offers, by adapter.  The    *)
(* same external id under two sources, and a listing whose content changed *)
(* under the same id, are among them.                                      *)

Catalogue(source) ==
    CASE source = "usajobs" -> { <<"e1", ContentSBE>> }
      [] source = "adzuna" -> { <<"e1", ContentSBE>>, <<"e1", ContentBPN>> }
      [] OTHER -> { }

\* "posted_at": posted_at or datetime.now(timezone.utc), for a fresh listing
Payloads(source, t) ==
    { JobData(source, l[1], l[2], t) : l \in Catalogue(source) }

NoRepeat(js) ==
    \A i, j \in DOMAIN js : i # j => js[i].external_id # js[j].external_id

\* the lists fetch_jobs of an adapter can return at time t
JobLists(source, t) ==
    { js \in SeqsUpTo(Payloads(source, t), MaxBatch) :
        source \in Dedupes => NoRepeat(js) }

\* the outcome of scraper.fetch_jobs(): a list, or an exception
Raised == [raised |-> TRUE, jobs |-> <<>>]
Returned(js) == [raised |-> FALSE, jobs |-> js]
Answers(source, t) == { Returned(js) : js \in JobLists(source, t) }
Responses(source, t) == Answers(source, t) \cup {Raised}

-----------------------------------------------------------------------------
(* run_all_scrapers (scheduler.py), one step at a time.  The runners are   *)
(* the threads that call it: the APScheduler job and the thread of         *)
(* trigger_scrape.                                                         *)

Runners == {"scheduled", "manual"}

NoStatus == [results |-> <<>>, started_at |-> None, completed_at |-> None]

NoSearch == [called |-> FALSE]

NoCall == [op |-> "none"]

\* the result dict of a scraper that returned
OkResult(source, added, skipped) ==
    [source |-> source, jobs_added |-> added, jobs_skipped |-> skipped, errors |-> 0]

\* mutant of ErrResult: the failure is recorded without an error count
ErrResult_silent(source) ==
    [source |-> source, jobs_added |-> 0, jobs_skipped |-> 0, errors |-> 0]

\* the result dict of the except branch
ErrResult(source) ==
    [source |-> source, jobs_added |-> 0, jobs_skipped |-> 0, errors |-> 1]

\* mutant of AfterScraper: the loop is left after any scraper
AfterScraper_break(i) == "backfill"

\* where the loop goes after scraper number i: the next scraper, or past the loop
AfterScraper(i) == IF i < Len(Scrapers) THEN "fetch" ELSE "backfill"

TypeOK ==
    /\ nextId \in Nat /\ now \in Nat /\ ticks \in 0..MaxTicks /\ runs \in 0..MaxRuns
    /\ pc \in [Runners -> {"idle", "fetch", "upsert", "backfill", "sweep", "publish"}]
    /\ idx \in [Runners -> 1..(Len(Scrapers) + 1)]
    /\ inserted \in [Runners -> Nat]
    /\ session \in [Runners -> {"closed", "open", "failed"}]

InitStore ==
    /\ jobs = {}
    /\ nextId = 1
    /\ baseId = 1
    /\ now = 0
    /\ ticks = 0
    /\ runs = 0

InitRunners ==
    /\ pc = [r \in Runners |-> "idle"]
    /\ idx = [r \in Runners |-> 1]
    /\ batch = [r \in Runners |-> <<>>]
    /\ pos = [r \in Runners |-> 1]
    /\ inserted = [r \in Runners |-> 0]
    /\ results = [r \in Runners |-> <<>>]
    /\ started_at = [r \in Runners |-> 0]
    /\ trace = [r \in Runners |-> <<>>]
    /\ last_scrape_status = NoStatus
    /\ search = NoSearch
    /\ call = NoCall
    /\ hashseed = 1
    /\ session = [r \in Runners |-> "closed"]

Init ==
    /\ InitStore
    /\ InitRunners
    /\ providers = <<>>
    /\ outputs = <<>>

\* the wall clock advances, in steps of the expiry threshold: a row's age is
\* below, at or beyond the threshold
Tick ==
    /\ ticks < MaxTicks
    /\ now' = now + ExpireDays
    /\ ticks' = ticks + 1
    /\ UNCHANGED <<session, providers, call, hashseed, jobs, nextId, runs, baseId, outputs, pc, idx, batch, pos, inserted,
                   results, started_at, trace, last_scrape_status, search>>

\* run_all_scrapers is entered: started_at, results = [], the session is opened
Started(r) ==
    /\ pc[r] = "idle"
    /\ started_at' = [started_at EXCEPT ![r] = now]
    /\ results' = [results EXCEPT ![r] = <<>>]
    /\ idx' = [idx EXCEPT ![r] = 1]
    /\ batch' = [batch EXCEPT ![r] = <<>>]
    /\ pos' = [pos EXCEPT ![r] = 1]
    /\ inserted' = [inserted EXCEPT ![r] = 0]
    /\ trace' = [trace EXCEPT ![r] = <<>>]
    /\ session' = [session EXCEPT ![r] = "open"]
    /\ pc' = [pc EXCEPT ![r] = "fetch"]
    /\ UNCHANGED <<providers, call, hashseed, jobs, nextId, now, ticks, baseId, outputs, last_scrape_status, search>>

\* a run starts, any number of times
StartRun(r) ==
    /\ Started(r)
    /\ runs' = runs

\* a run starts, and is counted: at most MaxRuns of them
StartCounted(r) ==
    /\ runs < MaxRuns
    /\ Started(r)
    /\ runs' = runs + 1

\* jobs = scraper.fetch_jobs() with outcome resp; an empty list goes through
\* upsert_jobs_bulk (0, 0) to results.append at once, an exception to the except branch
Fetched(r, resp) ==
    LET source == Scrapers[idx[r]] IN
    /\ UNCHANGED <<session, providers, call, hashseed, jobs, nextId, now, ticks, runs, baseId, outputs, started_at,
                   last_scrape_status, search>>
    /\ pos' = [pos EXCEPT ![r] = 1]
    /\ inserted' = [inserted EXCEPT ![r] = 0]
    /\ IF resp.raised
       THEN /\ batch' = [batch EXCEPT ![r] = <<>>]
            /\ results' = [results EXCEPT ![r] = Append(@, ErrResult(source))]
            /\ trace' = [trace EXCEPT ![r] = Append(@, <<"raise", source>>)]
            /\ idx' = [idx EXCEPT ![r] = @ + 1]
            /\ pc' = [pc EXCEPT ![r] = AfterScraper(idx[r])]
       ELSE /\ batch' = [batch EXCEPT ![r] = resp.jobs]
            /\ trace' = [trace EXCEPT ![r] = Append(@, <<"fetch", source>>)]
            /\ IF resp.jobs = <<>>
               THEN /\ results' = [results EXCEPT ![r] = Append(@, OkResult(source, 0, 0))]
                    /\ idx' = [idx EXCEPT ![r] = @ + 1]
                    /\ pc' = [pc EXCEPT ![r] = AfterScraper(idx[r])]
               ELSE /\ results' = results
                    /\ idx' = idx
                    /\ pc' = [pc EXCEPT ![r] = "upsert"]

\* the fetch of the current scraper, from providers that answer: any list they can give
FetchJobs(r) ==
    /\ pc[r] = "fetch"
    /\ \E resp \in Answers(Scrapers[idx[r]], now) : Fetched(r, resp)

\* the fetch of the current scraper, from providers whose answer (a list or a
\* failure) is the same on every call
FetchFixed(r) ==
    /\ pc[r] = "fetch"
    /\ Fetched(r, outputs[idx[r]])

\* one iteration of the loop of upsert_jobs_bulk: upsert_job(db, job_data), which
\* commits; after the last one, (inserted, len(jobs) - inserted) goes to results
UpsertStep(r) ==
    /\ pc[r] = "upsert"
    /\ session[r] = "open"
    /\ LET source == Scrapers[idx[r]]
           u == upsert_job(jobs, batch[r][pos[r]], nextId)
           n == inserted[r] + (IF u.ret THEN 1 ELSE 0)
       IN  /\ jobs' = u.tbl
           /\ nextId' = IF u.ret THEN nextId + 1 ELSE nextId
           /\ inserted' = [inserted EXCEPT ![r] = n]
           /\ pos' = [pos EXCEPT ![r] = @ + 1]
           /\ trace' = [trace EXCEPT ![r] = Append(@, <<"upsert", source>>)]
           /\ IF pos[r] = Len(batch[r])
              THEN /\ results' = [results EXCEPT ![r] =
                                     Append(@, OkResult(source, n, Len(batch[r]) - n))]
                   /\ idx' = [idx EXCEPT ![r] = @ + 1]
                   /\ pc' = [pc EXCEPT ![r] = AfterScraper(idx[r])]
              ELSE UNCHANGED <<results, idx, pc>>
    /\ UNCHANGED <<session, providers, call, hashseed, now, ticks, runs, baseId, outputs, batch, started_at,
                   last_scrape_status, search>>

\* update_search_vectors(db), after the loop
Backfill(r) ==
    /\ pc[r] = "backfill"
    /\ session[r] = "open"
    /\ jobs' = update_search_vectors(jobs)
    /\ trace' = [trace EXCEPT ![r] = Append(@, <<"backfill", "">>)]
    /\ pc' = [pc EXCEPT ![r] = "sweep"]
    /\ UNCHANGED <<session, providers, call, hashseed, nextId, now, ticks, runs, baseId, outputs, idx, batch, pos, inserted,
                   results, started_at, last_scrape_status, search>>

\* expired = expire_old_jobs(db, days=45); db.close()
Sweep(r) ==
    /\ pc[r] = "sweep"
    /\ session[r] = "open"
    /\ jobs' = expire_old_jobs(jobs, now, ExpireDays).tbl
    /\ trace' = [trace EXCEPT ![r] = Append(@, <<"sweep", "">>)]
    /\ session' = [session EXCEPT ![r] = "closed"]
    /\ pc' = [pc EXCEPT ![r] = "publish"]
    /\ UNCHANGED <<providers, call, hashseed, nextId, now, ticks, runs, baseId, outputs, idx, batch, pos, inserted,
                   results, started_at, last_scrape_status, search>>

\* mutant of Publish: the dict of the global is updated key by key, and a reader sees
\* it after "results" and "completed_at" were stored and before "started_at" is
Publish_in_place(r) ==
    /\ pc[r] = "publish"
    /\ last_scrape_status' = [last_scrape_status EXCEPT !.results = results[r],
                                                        !.completed_at = Some(now)]
    /\ pc' = [pc EXCEPT ![r] = "idle"]
    /\ idx' = [idx EXCEPT ![r] = 1]
    /\ batch' = [batch EXCEPT ![r] = <<>>]
    /\ pos' = [pos EXCEPT ![r] = 1]
    /\ inserted' = [inserted EXCEPT ![r] = 0]
    /\ results' = [results EXCEPT ![r] = <<>>]
    /\ started_at' = [started_at EXCEPT ![r] = 0]
    /\ trace' = [trace EXCEPT ![r] = <<>>]
    /\ UNCHANGED <<session, providers, call, hashseed, jobs, nextId, now, ticks, runs, baseId, outputs, search>>

\* completed_at = now(); last_scrape_status = {...}: one rebinding of the global;
\* the function returns and its locals are gone
Publish(r) ==
    /\ pc[r] = "publish"
    /\ last_scrape_status' = [results |-> results[r],
                              started_at |-> Some(started_at[r]),
                              completed_at |-> Some(now)]
    /\ pc' = [pc EXCEPT ![r] = "idle"]
    /\ idx' = [idx EXCEPT ![r] = 1]
    /\ batch' = [batch EXCEPT ![r] = <<>>]
    /\ pos' = [pos EXCEPT ![r] = 1]
    /\ inserted' = [inserted EXCEPT ![r] = 0]
    /\ results' = [results EXCEPT ![r] = <<>>]
    /\ started_at' = [started_at EXCEPT ![r] = 0]
    /\ trace' = [trace EXCEPT ![r] = <<>>]
    /\ UNCHANGED <<session, providers, call, hashseed, jobs, nextId, now, ticks, runs, baseId, outputs, search>>

\* the system with the daily job alone (APScheduler runs one instance of a job at a
\* time), the providers answering every fetch
Next ==
    \/ Tick
    \/ StartRun("scheduled")
    \/ FetchJobs("scheduled")
    \/ UpsertStep("scheduled")
    \/ Backfill("scheduled")
    \/ Sweep("scheduled")
    \/ Publish("scheduled")

Spec == Init /\ [][Next]_vars

-----------------------------------------------------------------------------
(* Repeated runs over fixed provider answers: every adapter returns the    *)
(* same list, or fails, on each call.  The storage starts empty or holds   *)
(* a row from before.                                                      *)

\* a row stored before the first run, already indexed
OldRow(source, ext, c) ==
    [NewRow(JobData(source, ext, c, 0), 1) EXCEPT
        !.search_vector = Some(to_tsvector(c.title \o c.description))]

InitRepeat ==
    /\ InitRunners
    /\ now = 0 /\ ticks = 0 /\ runs = 0
    /\ \/ jobs = {} /\ nextId = 1
       \/ jobs = {OldRow("adzuna", "e1", ContentBPN)} /\ nextId = 2
       \/ jobs = {OldRow("usajobs", "e9", ContentAI)} /\ nextId = 2
    /\ baseId = nextId
    /\ providers = <<>>
    /\ outputs \in { <<a, b, c, d, e>> :
                       a \in Responses(Scrapers[1], 0), b \in Responses(Scrapers[2], 0),
                       c \in Responses(Scrapers[3], 0), d \in Responses(Scrapers[4], 0),
                       e \in Responses(Scrapers[5], 0) }

NextRepeat ==
    \/ Tick
    \/ StartCounted("scheduled")
    \/ FetchFixed("scheduled")
    \/ UpsertStep("scheduled")
    \/ Backfill("scheduled")
    \/ Sweep("scheduled")
    \/ Publish("scheduled")

SpecRepeat == InitRepeat /\ [][NextRepeat]_vars

-----------------------------------------------------------------------------
(* get_jobs (crud.py): the three-phase text search and the filters.  The   *)
(* search text q is the sequence of its words; <<>> is no search text.     *)

_GENERIC ==
    {"developer", "engineer", "programmer", "manager", "analyst", "architect",
     "specialist", "consultant", "coordinator", "administrator", "admin",
     "senior", "junior", "lead", "staff", "principal", "associate", "intern",
     "trainee", "assistant", "support", "officer", "director", "head", "chief",
     "member", "team", "software", "technical", "technology", "tech", "full", "stack"}

IsDomainWord(w) == WordLen(Lower(w)) > MinWordLen /\ Lower(w) \notin _GENERIC

\* mutant of _domain_words: the length test is len(w) > 3
_domain_words_long(q) ==
    LET Keep(w) == WordLen(Lower(w)) > MinWordLen + 1 /\ Lower(w) \notin _GENERIC
    IN  [i \in DOMAIN SelectSeq(q, Keep) |-> Lower(SelectSeq(q, Keep)[i])]

\* _domain_words: [w for w in text.strip().lower().split()
\*                 if len(w) > 2 and w not in _GENERIC]
_domain_words(q) ==
    [i \in DOMAIN SelectSeq(q, IsDomainWord) |-> Lower(SelectSeq(q, IsDomainWord)[i])]

\* the count probes: active rows whose search vector matches tsq
ProbeCount(tbl, tsq) ==
    Cardinality({ r \in tbl : r.is_active /\ Matches(r.search_vector, tsq) })

\* mutant of TextFilter: no probes, the domain words are OR-ed at once
TextFilter_or(tbl, q) ==
    IF _domain_words(q) # <<>>
    THEN [phase |-> "domain_or", tsq |-> websearch_to_tsquery_or(_domain_words(q))]
    ELSE [phase |-> "generic", tsq |-> plainto_tsquery(q)]

\* the text filter get_jobs settles on for search text q, and the branch taken
TextFilter(tbl, q) ==
    LET and_tsq == plainto_tsquery(q)
        domain_words == _domain_words(q)
        domain_and_tsq == plainto_tsquery(domain_words)
    IN  IF ProbeCount(tbl, and_tsq) > 0
        THEN [phase |-> "strict", tsq |-> and_tsq]
        ELSE IF domain_words # <<>>
             THEN IF ProbeCount(tbl, domain_and_tsq) > 0
                  THEN [phase |-> "domain_and", tsq |-> domain_and_tsq]
                  ELSE [phase |-> "domain_or",
                        tsq |-> websearch_to_tsquery_or(domain_words)]
             ELSE [phase |-> "generic", tsq |-> and_tsq]

\* mutant of DaysOf: a value outside the map means 7 days
DaysOf_week(posted_within) ==
    CASE posted_within = "1d" -> 1
      [] posted_within = "3d" -> 3
      [] posted_within = "14d" -> 14
      [] posted_within = "30d" -> 30
      [] OTHER -> 7

\* days_map.get(posted_within, 30)
DaysOf(posted_within) ==
    CASE posted_within = "1d" -> 1
      [] posted_within = "3d" -> 3
      [] posted_within = "7d" -> 7
      [] posted_within = "14d" -> 14
      [] OTHER -> 30

\* Job.salary_min >= floor OR Job.salary_max >= floor; a NULL column is not >= floor
AtLeast(col, floor) == ~IsNone(col) /\ Val(col) >= floor

\* the filters of get_jobs other than the search text, on one row at time t;
\* an argument of None (or a falsy one: salary_min 0, posted_within "") adds no filter
PassesFilters(r, a, t) ==
    /\ IsNone(a.category) \/ r.category = Val(a.category)
    /\ IsNone(a.state) \/ r.location_state = a.state
    /\ IsNone(a.work_type) \/ r.work_type = Val(a.work_type)
    /\ IsNone(a.experience) \/ r.experience_level = Val(a.experience)
    /\ IsNone(a.salary_min) \/ Val(a.salary_min) = 0
         \/ AtLeast(r.salary_min, Val(a.salary_min))
         \/ AtLeast(r.salary_max, Val(a.salary_min))
    /\ IsNone(a.source) \/ r.source = Val(a.source)
    /\ IsNone(a.posted_within) \/ Val(a.posted_within) = ""
         \/ (~IsNone(r.posted_at) /\ Val(r.posted_at) >= t - DaysOf(Val(a.posted_within)))

\* get_jobs up to total = query.count(): the branch of the text search, the rows the
\* query selects and their number
get_jobs(tbl, a, t) ==
    LET f == IF a.q # <<>> THEN TextFilter(tbl, a.q)
                           ELSE [phase |-> "none", tsq |-> plainto_tsquery(<<>>)]
        rows == { r \in tbl : /\ r.is_active
                              /\ a.q # <<>> => Matches(r.search_vector, f.tsq)
                              /\ PassesFilters(r, a, t) }
    IN  [phase |-> f.phase, tsq |-> f.tsq, rows |-> rows, total |-> Cardinality(rows)]

-----------------------------------------------------------------------------
(* Searches over a stored corpus: every table over three keys whose rows   *)
(* are as ingestion leaves them (inserted; indexed by the backfill; or     *)
(* indexed and expired by the sweep)                                       *)

FixtureQuery == <<"backend", "engineer", "python", "ninja">>

QueryWords == {"senior", "backend", "engineer", "python", "ai", "the"}

Queries == SeqsUpTo(QueryWords, MaxQueryLen) \cup {FixtureQuery}

NoFilters(q) ==
    [q |-> q, category |-> None, state |-> None, work_type |-> None,
     experience |-> None, salary_min |-> None, posted_within |-> None, source |-> None]

SearchArgs ==
    { [NoFilters(q) EXCEPT !.source = src] :
        q \in Queries, src \in {None, Some("usajobs")} }

CorpusKeys == <<"usajobs", "adzuna", "themuse">>

\* the rows key number k can hold
RowsOf(k) ==
    LET fresh == { NewRow(JobData(CorpusKeys[k], "e1", c, 0), k) : c \in Contents }
        indexed == update_search_vectors(fresh)
        expired == { [r EXCEPT !.is_active = FALSE] : r \in indexed }
    IN  fresh \cup indexed \cup expired

\* one row or none per key
Corpora ==
    { UNION { cell[k] : k \in DOMAIN CorpusKeys } :
        cell \in [DOMAIN CorpusKeys -> { {} } \cup UNION { { {r} : r \in RowsOf(k) } : k \in DOMAIN CorpusKeys }] }

InitSearch ==
    /\ InitRunners
    /\ now = 0 /\ ticks = 0 /\ runs = 0
    /\ providers = <<>>
    /\ outputs = <<>>
    /\ jobs \in { c \in Corpora : \A r1, r2 \in c : KeyOf(r1) = KeyOf(r2) => r1 = r2 }
    /\ nextId = Len(CorpusKeys) + 1
    /\ baseId = nextId

\* a request GET /api/jobs reaches get_jobs with arguments a; search holds the
\* call and its answer until the response is sent
GetJobs(a) ==
    /\ ~search.called
    /\ search' = [called |-> TRUE, args |-> a, res |-> get_jobs(jobs, a, now)]
    /\ UNCHANGED <<session, providers, call, hashseed, jobs, nextId, now, ticks, runs, baseId, outputs, pc, idx, batch, pos,
                   inserted, results, started_at, trace, last_scrape_status>>

\* list_jobs returns the response
Respond ==
    /\ search.called
    /\ search' = NoSearch
    /\ UNCHANGED <<session, providers, call, hashseed, jobs, nextId, now, ticks, runs, baseId, outputs, pc, idx, batch, pos,
                   inserted, results, started_at, trace, last_scrape_status>>

NextSearch ==
    \/ \E a \in SearchArgs : GetJobs(a)
    \/ Respond

SpecSearch == InitSearch /\ [][NextSearch]_vars

-----------------------------------------------------------------------------
(* The read operations over a stored corpus: list_jobs with filters, sort  *)
(* and pagination, get_job_by_id, the category and state lists, get_stats  *)

Min(a, b) == IF a <= b THEN a ELSE b

\* the sort key of a row: order_by(desc(Job.salary_max)) or order_by(desc(Job.posted_at))
SortKey(r, sort) == IF sort = "salary_max" THEN r.salary_max ELSE r.posted_at

\* DESC NULLS LAST allows r1 before r2; rows with equal keys, or both NULL, may come
\* in either order: the query names no further sort column
MayPrecede(r1, r2, sort) ==
    \/ IsNone(SortKey(r2, sort))
    \/ (~IsNone(SortKey(r1, sort)) /\ Val(SortKey(r1, sort)) >= Val(SortKey(r2, sort)))

\* the orders in which the engine may return the selected rows
Orderings(rows, sort) ==
    { o \in [1..Cardinality(rows) -> rows] :
        /\ \A i, j \in DOMAIN o : i # j => o[i] # o[j]
        /\ \A i, j \in DOMAIN o : i < j => MayPrecede(o[i], o[j], sort) }

\* query.offset((page - 1) * per_page).limit(per_page) of an ordered result
Page(o, page, per_page) ==
    SubSeq(o, (page - 1) * per_page + 1, Min(page * per_page, Len(o)))

\* math.ceil(total / per_page) if total > 0 else 0
total_pages(total, per_page) ==
    IF total > 0 THEN (total + per_page - 1) \div per_page ELSE 0

\* the answers list_jobs can give: get_jobs selects and counts, orders, slices
list_jobs(tbl, a, t) ==
    LET sel == get_jobs(tbl, a, t) IN
    { [jobs |-> Page(o, a.page, a.per_page), total |-> sel.total,
       page |-> a.page, per_page |-> a.per_page,
       total_pages |-> total_pages(sel.total, a.per_page)] :
        o \in Orderings(sel.rows, a.sort) }

\* get_job_by_id without the is_active condition
get_job_by_id_any(tbl, job_id) ==
    IF \E r \in tbl : r.id = job_id
    THEN Some(CHOOSE r \in tbl : r.id = job_id)
    ELSE None

\* get_job_by_id: filter(Job.id == job_id, Job.is_active == True).first()
get_job_by_id(tbl, job_id) ==
    IF \E r \in tbl : r.id = job_id /\ r.is_active
    THEN Some(CHOOSE r \in tbl : r.id = job_id /\ r.is_active)
    ELSE None

\* get_categories_with_counts: active rows grouped by category
get_categories_with_counts(tbl) ==
    { <<c, Cardinality({ r \in tbl : r.is_active /\ r.category = c })>> :
        c \in { r.category : r \in { x \in tbl : x.is_active } } }

\* get_locations_with_counts: active rows with a state, grouped by state
get_locations_with_counts(tbl) ==
    { <<st, Cardinality({ r \in tbl : r.is_active /\ r.location_state = Some(st) })>> :
        st \in { Val(r.location_state) :
                   r \in { x \in tbl : x.is_active /\ ~IsNone(x.location_state) } } }

\* get_stats: total over all rows; active, companies and per-source over active rows
get_stats(tbl) ==
    LET act == { r \in tbl : r.is_active } IN
    [total_jobs |-> Cardinality(tbl),
     active_jobs |-> Cardinality(act),
     total_companies |-> Cardinality({ r.company : r \in act }),
     sources |-> { <<src, Cardinality({ r \in act : r.source = src })>> :
                     src \in { r.source : r \in act } }]

-----------------------------------------------------------------------------
(* Properties of ingestion *)

S == "scheduled"

RowsWithKey(k) == { r \in jobs : KeyOf(r) = k }

\* the job dict the last upsert_job call of runner r was given
LastUpserted(r) == batch[r][pos[r] - 1]

\* runner r has just been through an upsert_job call
JustUpserted(r) == pos[r] > 1 /\ pos[r] - 1 \in DOMAIN batch[r]

\* C1: no two stored jobs share the same (source, external_id), whatever runs,
\* adapters and batches (a batch may hold a key twice) came before
C1_UniqueKey ==
    \A r1, r2 \in jobs : KeyOf(r1) = KeyOf(r2) => r1 = r2

\* C1 witness: a batch that held one key twice has been upserted, and one row has it
C1_Witness ==
    /\ pos[S] = 3
    /\ Len(batch[S]) = 2
    /\ KeyOf(batch[S][1]) = KeyOf(batch[S][2])
    /\ batch[S][1] # batch[S][2]
    /\ Cardinality(RowsWithKey(KeyOf(batch[S][1]))) = 1

\* C3: an upsert_job call whose (source, external_id) is already stored leaves the
\* table as it is (no field of any row changes, no row is added) and returns False
\* (the caller's inserted counter stays)
C3_ConflictIsNoOp ==
    [][ \A r \in Runners :
          ( /\ pc[r] = "upsert"
            /\ pos'[r] = pos[r] + 1
            /\ Conflict(jobs, batch[r][pos[r]]) )
          => (jobs' = jobs /\ nextId' = nextId /\ inserted'[r] = inserted[r]) ]_vars

\* C3 witness: the last upsert_job call carried a stored key with other field values
\* (title, description, salary, posted_at) than the stored row, which is still there
C3_Witness ==
    /\ JustUpserted(S)
    /\ \E row \in jobs :
         /\ KeyOf(row) = KeyOf(LastUpserted(S))
         /\ row.title # LastUpserted(S).title
         /\ row.salary_min # LastUpserted(S).salary_min
         /\ row.posted_at # LastUpserted(S).posted_at
         /\ ~row.is_active
         /\ ~IsNone(row.search_vector)

\* C4: every stored job stays stored, and once its is_active is false it stays false,
\* over ingestion runs, backfills and sweeps
C4_MonotonicExpiry ==
    [][ \A row \in jobs :
          \E later \in jobs' :
             /\ later.id = row.id
             /\ KeyOf(later) = KeyOf(row)
             /\ ~row.is_active => ~later.is_active ]_vars

\* C4 witness: a listing has just been re-ingested with is_active = True in its
\* payload while the stored job of that key is inactive, and the job is inactive still
C4_Witness ==
    /\ JustUpserted(S)
    /\ pc[S] = "fetch"
    /\ LastUpserted(S).is_active
    /\ \E row \in jobs :
         /\ KeyOf(row) = KeyOf(LastUpserted(S))
         /\ ~row.is_active

\* C5: a sweep with threshold 45 days leaves every job older than the cutoff
\* inactive, changes no field of a job at or newer than the cutoff (nor of one
\* without posted_at), and a second sweep at the same clock reading updates no row
C5_Sweep ==
    [][ \A r \in Runners :
          (pc[r] = "sweep" /\ pc'[r] = "publish")
          => LET cutoff == now - ExpireDays IN
             /\ \A row \in jobs' : Before(row.posted_at, cutoff) => ~row.is_active
             /\ \A row \in jobs : ~Before(row.posted_at, cutoff) => row \in jobs'
             /\ \A row \in jobs :
                  \E later \in jobs' : later = [row EXCEPT !.is_active = later.is_active]
             /\ Cardinality(jobs') = Cardinality(jobs)
             /\ expire_old_jobs(jobs', now', ExpireDays) = [tbl |-> jobs', updated |-> 0]
       ]_vars

\* C5 witness: a sweep has just expired a job older than the cutoff and left active a
\* job posted exactly at the cutoff
C5_Witness ==
    /\ pc[S] = "publish"
    /\ \E old, edge \in jobs :
         /\ ~old.is_active /\ Before(old.posted_at, now - ExpireDays)
         /\ edge.is_active /\ edge.posted_at = Some(now - ExpireDays)

-----------------------------------------------------------------------------
(* Properties of repeated runs over fixed provider answers (SpecRepeat) *)

\* the keys adapter number i returns
KeysOf(i) == { KeyOf(outputs[i].jobs[n]) : n \in DOMAIN outputs[i].jobs }

\* the storage held none of the adapters' keys before the first run
StartedFresh ==
    \A row \in jobs : row.id < baseId => \A i \in DOMAIN Scrapers : KeyOf(row) \notin KeysOf(i)

\* run number n has completed and no later run has started: last_scrape_status is
\* the snapshot of run n
Completed(n) == runs = n /\ pc[S] = "idle"

\* the status entry of adapter number i in the snapshot
Entry(i) == last_scrape_status.results[i]

\* C2 as claimed: from storage without their keys, each source that returned N jobs
\* reports added = N, skipped = 0 in the first run and added = 0, skipped = N in the
\* second, N being the number of jobs the adapter returned
C2_Original ==
    StartedFresh =>
      \A i \in DOMAIN Scrapers :
        ~outputs[i].raised =>
          LET N == Len(outputs[i].jobs) IN
          /\ Completed(1) => (Entry(i).jobs_added = N /\ Entry(i).jobs_skipped = 0)
          /\ Completed(2) => (Entry(i).jobs_added = 0 /\ Entry(i).jobs_skipped = N)

\* C2 as amended: with N the number of jobs the adapter returned and D the number of
\* distinct (source, external_id) among them, the first run reports added = D,
\* skipped = N - D, and every later run added = 0, skipped = N
C2_Idempotent ==
    StartedFresh =>
      \A i \in DOMAIN Scrapers :
        ~outputs[i].raised =>
          LET N == Len(outputs[i].jobs)
              D == Cardinality(KeysOf(i))
          IN
          /\ Completed(1) => (Entry(i).jobs_added = D /\ Entry(i).jobs_skipped = N - D)
          /\ (runs >= 2 /\ pc[S] = "idle")
               => (Entry(i).jobs_added = 0 /\ Entry(i).jobs_skipped = N)
          /\ (runs >= 1 /\ pc[S] = "idle")
               => (Entry(i).source = Scrapers[i] /\ Entry(i).errors = 0)

\* C2 witness: the second run has completed over answers that hold two distinct keys
\* and a repeated one, on storage that held an unrelated row
C2_Witness ==
    /\ Completed(2)
    /\ StartedFresh
    /\ jobs # {} /\ \E row \in jobs : row.id < baseId
    /\ \E i, j \in DOMAIN Scrapers :
         /\ i # j
         /\ ~outputs[i].raised /\ Len(outputs[i].jobs) = 1
         /\ ~outputs[j].raised /\ Len(outputs[j].jobs) = 2
         /\ Entry(i).jobs_skipped = 1 /\ Entry(j).jobs_skipped = 2

\* C6: an adapter whose fetch_jobs raises gets the entry errors = 1, jobs_added = 0,
\* jobs_skipped = 0; every adapter of the list is run, in order, whichever of them
\* raise; and the backfill and then the sweep follow the last adapter
FetchMarks == {"fetch", "raise"}

IsFetchEvent(e) == e[1] \in FetchMarks

C6_FailureIsolated ==
    \A r \in Runners :
      LET fetches == SelectSeq(trace[r], IsFetchEvent) IN
      /\ \A i \in DOMAIN results[r] :
           outputs[i].raised =>
             results[r][i] = [source |-> Scrapers[i], jobs_added |-> 0,
                              jobs_skipped |-> 0, errors |-> 1]
      /\ \A i \in DOMAIN fetches :
           fetches[i] = <<(IF outputs[i].raised THEN "raise" ELSE "fetch"), Scrapers[i]>>
      /\ \A i \in DOMAIN Scrapers :
           (outputs[i].raised /\ i \in DOMAIN results[r] /\ pc[r] = "fetch")
             => (idx[r] = Len(results[r]) + 1 /\ idx[r] \in DOMAIN Scrapers)
      /\ pc[r] \in {"backfill", "sweep", "publish"}
           => (Len(results[r]) = Len(Scrapers) /\ Len(fetches) = Len(Scrapers))
      /\ pc[r] = "publish"
           => /\ Len(trace[r]) >= 2
              /\ trace[r][Len(trace[r]) - 1] = <<"backfill", "">>
              /\ trace[r][Len(trace[r])] = <<"sweep", "">>

\* C6 witness: the first adapter raised, a later adapter's jobs were stored by the
\* same run, and the run is past its backfill and sweep
C6_Witness ==
    /\ pc[S] = "publish"
    /\ outputs[1].raised
    /\ results[S][1].errors = 1
    /\ \E i \in DOMAIN results[S] : i > 1 /\ results[S][i].jobs_added = 1
    /\ \E row \in jobs : row.id >= baseId /\ ~IsNone(row.search_vector)

-----------------------------------------------------------------------------
(* Properties of the search (SpecSearch) *)

Q == search.args.q

AllTerms(q) == plainto_tsquery(q)
AllDomain(q) == plainto_tsquery(_domain_words(q))
AnyDomain(q) == websearch_to_tsquery_or(_domain_words(q))

\* some active job matches tsq
SomeActive(tsq) == \E r \in jobs : r.is_active /\ Matches(r.search_vector, tsq)

Searched == search.called /\ Q # <<>>

\* C7: with search text, the text filter is the all-terms query if an active job
\* matches it; otherwise, if domain words remain, the all-domain-words query if an
\* active job matches it, and else the any-domain-word query; so when an active job
\* matches all terms, every returned job matches all terms
C7_FirstPhaseThatApplies ==
    Searched =>
      /\ SomeActive(AllTerms(Q)) =>
           /\ search.res.tsq = AllTerms(Q)
           /\ \A r \in search.res.rows : Matches(r.search_vector, AllTerms(Q))
      /\ (~SomeActive(AllTerms(Q)) /\ _domain_words(Q) # <<>>) =>
           /\ SomeActive(AllDomain(Q)) => search.res.tsq = AllDomain(Q)
           /\ ~SomeActive(AllDomain(Q)) => search.res.tsq = AnyDomain(Q)
      /\ \A r \in jobs :
           r \in search.res.rows <=>
             /\ r.is_active
             /\ Matches(r.search_vector, search.res.tsq)
             /\ PassesFilters(r, search.args, now)

\* C7 witness: an active job matches all terms, another active job matches a domain
\* word only, and the answer holds the first and not the second
C7_Witness ==
    /\ Searched
    /\ IsNone(search.args.source)
    /\ Len(_domain_words(Q)) = 2
    /\ search.res.total = 1
    /\ \E r \in jobs : /\ r.is_active
                       /\ Matches(r.search_vector, AnyDomain(Q))
                       /\ r \notin search.res.rows

\* the branch that keeps the all-terms query although no active job matches it
KeptStrict == Searched /\ search.res.phase = "generic"

\* the branches that widen to the domain words
Widened == Searched /\ search.res.phase \in {"domain_and", "domain_or"}

C9_Claim ==
    (Searched /\ _domain_words(Q) # <<>>) =>
      ( (\E r \in jobs : /\ r.is_active
                         /\ PassesFilters(r, search.args, now)
                         /\ Matches(r.search_vector, AnyDomain(Q)))
        => search.res.total >= 1 )

\* the job of the search-widening fixture: active, indexed, titled Senior Backend Engineer
IsFixtureJob(r) ==
    /\ r.title = <<"Senior", "Backend", "Engineer">>
    /\ r.is_active
    /\ ~IsNone(r.search_vector)

FixtureSearch ==
    /\ search.called
    /\ search.args = NoFilters(FixtureQuery)
    /\ \E r \in jobs : IsFixtureJob(r)
    /\ ~SomeActive(AllTerms(FixtureQuery))

\* C10 as claimed: in a corpus with an active job titled Senior Backend Engineer and
\* no job matching all words of the query, the strict probe yields zero, the domain
\* words are the query without "engineer", and the answer holds that job
C10_Original ==
    ( /\ search.called
      /\ search.args = NoFilters(FixtureQuery)
      /\ \E r \in jobs : r.title = <<"Senior", "Backend", "Engineer">> /\ r.is_active
      /\ ~\E r \in jobs : Matches(r.search_vector, AllTerms(FixtureQuery)) )
    =>
      /\ search.res.phase # "strict"
      /\ _domain_words(FixtureQuery) = <<"backend", "python", "ninja">>
      /\ \A r \in jobs :
           (r.title = <<"Senior", "Backend", "Engineer">> /\ r.is_active) => r \in search.res.rows

\* C10 as amended: in the fixture the strict probe yields zero and the domain words
\* are the query without "engineer"; when no active job matches all three domain
\* words either, the any-domain-word query is used and the answer holds the fixture
\* job and every other active job that matches a domain word; when one does, the
\* answer holds exactly the active jobs matching all three domain words
C10_Widening ==
    FixtureSearch =>
      /\ search.res.phase \in {"domain_and", "domain_or"}
      /\ _domain_words(FixtureQuery) = <<"backend", "python", "ninja">>
      /\ ~SomeActive(AllDomain(FixtureQuery)) =>
           /\ search.res.phase = "domain_or"
           /\ \A r \in jobs : IsFixtureJob(r) => r \in search.res.rows
           /\ \A r \in jobs :
                (r.is_active /\ Matches(r.search_vector, AnyDomain(FixtureQuery)))
                  => r \in search.res.rows
      /\ SomeActive(AllDomain(FixtureQuery)) =>
           /\ search.res.phase = "domain_and"
           /\ search.res.rows =
                { r \in jobs : r.is_active /\ Matches(r.search_vector, AllDomain(FixtureQuery)) }

\* C10 witness: the fixture search was answered through the any-domain-word query,
\* with the fixture job and a second job in the answer
C10_Witness ==
    /\ FixtureSearch
    /\ search.res.phase = "domain_or"
    /\ search.res.total = 2
    /\ \E r \in search.res.rows : IsFixtureJob(r)

-----------------------------------------------------------------------------
(* Reads over a stored corpus (SpecList) *)

\* the clock reading of the reads: rows are 7, 30 and 46 days old
ListNow == ExpireDays + 1

ListKeys == <<"usajobs", "adzuna", "themuse">>

ListContents(k) ==
    CASE k = 1 -> {ContentSBE, ContentBPN}
      [] k = 2 -> {ContentSBE, ContentAI}
      [] OTHER -> {ContentAI}

\* the rows key number k can hold: indexed; active at the ages the sweep leaves
\* active, and active or expired beyond the threshold
ListRowsOf(k) ==
    LET row(c, posted) ==
            CHOOSE r \in update_search_vectors({NewRow(JobData(ListKeys[k], "e1", c, posted), k)}) : TRUE
        young == { row(c, posted) : c \in ListContents(k),
                                    posted \in {ListNow - 7, ListNow - 30} }
        old == { row(c, 0) : c \in ListContents(k) }
    IN  young \cup old \cup expire_old_jobs(old, ListNow, ExpireDays).tbl

ListCorpora ==
    { a \cup b \cup c :
        a \in {{}} \cup { {r} : r \in ListRowsOf(1) },
        b \in {{}} \cup { {r} : r \in ListRowsOf(2) },
        c \in {{}} \cup { {r} : r \in ListRowsOf(3) } }

\* the equality filters of a request: none, one of them, or all four
EqFilters ==
    LET none == NoFilters(<<>>) IN
    { none,
      [none EXCEPT !.category = Some("Backend Development")],
      [none EXCEPT !.state = Some("California")],
      [none EXCEPT !.work_type = Some("remote")],
      [none EXCEPT !.experience = Some("mid")],
      [none EXCEPT !.category = Some("Backend Development"), !.state = Some("California"),
                   !.work_type = Some("onsite"), !.experience = Some("senior")] }

PerPages == {1, 2}

\* the arguments of a first-page request without search text
ListArgs ==
    { [q |-> f.q, category |-> f.category, state |-> f.state, work_type |-> f.work_type,
       experience |-> f.experience, salary_min |-> sal, posted_within |-> win,
       source |-> src, page |-> 1, per_page |-> pp, sort |-> srt] :
        f \in EqFilters,
        sal \in {None, Some(0), Some(90000)},
        win \in {None, Some("7d"), Some("60d"), Some("")},
        src \in {None, Some("usajobs")},
        pp \in PerPages,
        srt \in {"posted_at", "salary_max"} }

InitList ==
    /\ InitRunners
    /\ now = ListNow /\ ticks = 0 /\ runs = 0
    /\ providers = <<>>
    /\ outputs = <<>>
    /\ jobs \in ListCorpora
    /\ nextId = Len(ListKeys) + 1
    /\ baseId = nextId

\* GET /api/jobs, page 1: call holds the request, the answer and the pages read so far
ListJobs(a) ==
    /\ call = NoCall
    /\ \E res \in list_jobs(jobs, a, now) :
         call' = [op |-> "list_jobs", args |-> a, res |-> res, pages |-> <<res.jobs>>]
    /\ UNCHANGED <<session, providers, jobs, nextId, now, ticks, runs, baseId, outputs, pc, idx, batch, pos,
                   inserted, results, started_at, trace, last_scrape_status, search, hashseed>>

\* the client asks for the next page with the same filters, sort and per_page
NextPage ==
    /\ call.op = "list_jobs"
    /\ Len(call.pages) < call.res.total_pages
    /\ \E res \in list_jobs(jobs, [call.args EXCEPT !.page = Len(call.pages) + 1], now) :
         call' = [call EXCEPT !.pages = Append(@, res.jobs)]
    /\ UNCHANGED <<session, providers, jobs, nextId, now, ticks, runs, baseId, outputs, pc, idx, batch, pos,
                   inserted, results, started_at, trace, last_scrape_status, search, hashseed>>

\* GET /api/jobs/{job_id}
GetSingleJob(job_id) ==
    /\ call = NoCall
    /\ call' = [op |-> "get_job_by_id", args |-> job_id, res |-> get_job_by_id(jobs, job_id)]
    /\ UNCHANGED <<session, providers, jobs, nextId, now, ticks, runs, baseId, outputs, pc, idx, batch, pos,
                   inserted, results, started_at, trace, last_scrape_status, search, hashseed>>

\* GET /api/jobs/categories
ListCategories ==
    /\ call = NoCall
    /\ call' = [op |-> "get_categories_with_counts", res |-> get_categories_with_counts(jobs)]
    /\ UNCHANGED <<session, providers, jobs, nextId, now, ticks, runs, baseId, outputs, pc, idx, batch, pos,
                   inserted, results, started_at, trace, last_scrape_status, search, hashseed>>

\* GET /api/jobs/locations
ListLocations ==
    /\ call = NoCall
    /\ call' = [op |-> "get_locations_with_counts", res |-> get_locations_with_counts(jobs)]
    /\ UNCHANGED <<session, providers, jobs, nextId, now, ticks, runs, baseId, outputs, pc, idx, batch, pos,
                   inserted, results, started_at, trace, last_scrape_status, search, hashseed>>

\* GET /api/stats
GetStats ==
    /\ call = NoCall
    /\ call' = [op |-> "get_stats", res |-> get_stats(jobs)]
    /\ UNCHANGED <<session, providers, jobs, nextId, now, ticks, runs, baseId, outputs, pc, idx, batch, pos,
                   inserted, results, started_at, trace, last_scrape_status, search, hashseed>>

\* the answer has been sent
Return ==
    /\ call # NoCall
    /\ call' = NoCall
    /\ UNCHANGED <<session, providers, jobs, nextId, now, ticks, runs, baseId, outputs, pc, idx, batch, pos,
                   inserted, results, started_at, trace, last_scrape_status, search, hashseed>>

NextList ==
    \/ \E a \in ListArgs : ListJobs(a)
    \/ NextPage
    \/ \E job_id \in 1..Len(ListKeys) : GetSingleJob(job_id)
    \/ ListCategories
    \/ ListLocations
    \/ GetStats
    \/ Return

SpecList == InitList /\ [][NextList]_vars

-----------------------------------------------------------------------------
(* Properties of the reads (SpecList) *)

Listed == call.op = "list_jobs"

\* the jobs of all pages read so far, in the order read
Concat(pages) ==
    LET RECURSIVE cat(_)
        cat(n) == IF n = 0 THEN <<>> ELSE cat(n - 1) \o pages[n]
    IN  cat(Len(pages))

WithinDays(r, days) == ~IsNone(r.posted_at) /\ Val(r.posted_at) >= now - days

\* the equality filters of the request hold of row r
EqualsAll(r, a) ==
    /\ ~IsNone(a.category) => r.category = Val(a.category)
    /\ ~IsNone(a.state) => r.location_state = a.state
    /\ ~IsNone(a.work_type) => r.work_type = Val(a.work_type)
    /\ ~IsNone(a.experience) => r.experience_level = Val(a.experience)
    /\ ~IsNone(a.source) => r.source = Val(a.source)

\* row r is active and satisfies every filter given in the request, a given salary
\* floor or window being any value passed
SatisfiesGiven(r, a) ==
    /\ r.is_active
    /\ EqualsAll(r, a)
    /\ ~IsNone(a.salary_min) =>
         \/ (~IsNone(r.salary_min) /\ Val(r.salary_min) >= Val(a.salary_min))
         \/ (~IsNone(r.salary_max) /\ Val(r.salary_max) >= Val(a.salary_min))
    /\ ~IsNone(a.posted_within) =>
         WithinDays(r, IF Val(a.posted_within) \in {"1d", "3d", "7d", "14d", "30d"}
                       THEN DaysOf(Val(a.posted_within)) ELSE 30)

\* as SatisfiesGiven, a salary floor of 0 and an empty window being no filter
SatisfiesTruthy(r, a) ==
    /\ r.is_active
    /\ EqualsAll(r, a)
    /\ (~IsNone(a.salary_min) /\ Val(a.salary_min) # 0) =>
         \/ (~IsNone(r.salary_min) /\ Val(r.salary_min) >= Val(a.salary_min))
         \/ (~IsNone(r.salary_max) /\ Val(r.salary_max) >= Val(a.salary_min))
    /\ (~IsNone(a.posted_within) /\ Val(a.posted_within) # "") =>
         WithinDays(r, IF Val(a.posted_within) \in {"1d", "3d", "7d", "14d", "30d"}
                       THEN DaysOf(Val(a.posted_within)) ELSE 30)

\* C11 as claimed: without search text the total is the number of active jobs that
\* satisfy every supplied filter (salary floor met by salary_min or salary_max, window
\* values outside the map meaning 30 days), and every returned job satisfies them
C11_Original ==
    Listed =>
      /\ call.res.total = Cardinality({ r \in jobs : SatisfiesGiven(r, call.args) })
      /\ \A i \in DOMAIN call.res.jobs : SatisfiesGiven(call.res.jobs[i], call.args)

\* C11 as amended: without search text the total is the number of active jobs that
\* satisfy every supplied filter, where a salary floor of 0 and an empty window string
\* count as not supplied, and every job of every page satisfies them
C11_TotalOfFiltered ==
    Listed =>
      /\ call.res.total = Cardinality({ r \in jobs : SatisfiesTruthy(r, call.args) })
      /\ \A p \in DOMAIN call.pages : \A i \in DOMAIN call.pages[p] :
           /\ call.pages[p][i] \in jobs
           /\ SatisfiesTruthy(call.pages[p][i], call.args)

\* C11 witness: a request with all four equality filters, a salary floor and an
\* unmapped window returned a job, and the table holds active jobs it left out
C11_Witness ==
    /\ Listed
    /\ call.args.category # None /\ call.args.experience # None
    /\ call.args.salary_min = Some(90000)
    /\ call.args.posted_within = Some("60d")
    /\ call.res.total = 1
    /\ Cardinality({ r \in jobs : r.is_active }) = 3

\* the active rows of the table
ActiveRows == { r \in jobs : r.is_active }

\* the inactive rows of the table
InactiveRows == { r \in jobs : ~r.is_active }

\* C12: no read exposes a job with is_active = false: get_job_by_id answers not found
\* for it, list_jobs neither returns nor counts it, and the category list, the state
\* list and the active, company and per-source figures of get_stats are those of the
\* active jobs alone; total_jobs of get_stats counts every stored job
C12_InactiveNotExposed ==
    /\ call.op = "get_job_by_id" =>
         /\ (\E r \in InactiveRows : r.id = call.args) => call.res = None
         /\ call.res # None => (Val(call.res) \in ActiveRows /\ Val(call.res).id = call.args)
    /\ call.op = "list_jobs" =>
         /\ \A p \in DOMAIN call.pages : \A i \in DOMAIN call.pages[p] :
              call.pages[p][i] \in ActiveRows
         /\ call.res.total = get_jobs(ActiveRows, call.args, now).total
    /\ call.op = "get_categories_with_counts" =>
         /\ call.res = get_categories_with_counts(ActiveRows)
         /\ \A e \in call.res :
              e[2] = Cardinality({ r \in ActiveRows : r.category = e[1] })
    /\ call.op = "get_locations_with_counts" =>
         /\ call.res = get_locations_with_counts(ActiveRows)
         /\ \A e \in call.res :
              e[2] = Cardinality({ r \in ActiveRows : r.location_state = Some(e[1]) })
    /\ call.op = "get_stats" =>
         /\ call.res.active_jobs = Cardinality(ActiveRows)
         /\ call.res.total_companies = Cardinality({ r.company : r \in ActiveRows })
         /\ \A e \in call.res.sources :
              e[2] = Cardinality({ r \in ActiveRows : r.source = e[1] }) /\ e[2] > 0
         /\ \A r \in ActiveRows : \E e \in call.res.sources : e[1] = r.source
         /\ call.res.total_jobs = Cardinality(jobs)

\* C12 witness: get_job_by_id was asked for a stored job that is inactive and
\* answered not found
C12_Witness ==
    /\ call.op = "get_job_by_id"
    /\ \E r \in InactiveRows : r.id = call.args
    /\ call.res = None
    /\ ActiveRows # {}

\* the walk over the pages 1..total_pages is complete
WalkDone == Listed /\ Len(call.pages) = call.res.total_pages

\* the rows the request selects
Selected == get_jobs(jobs, call.args, now).rows

\* s is sorted by the sort key, descending, NULL last
SortedBy(s, sort) == \A i, j \in DOMAIN s : i < j => MayPrecede(s[i], s[j], sort)

\* C13 as claimed: total_pages is ceil(total / per_page), and the pages 1..total_pages
\* concatenated in order hold every selected job exactly once, in sort order
C13_Claim ==
    /\ Listed =>
         /\ call.res.total_pages * call.args.per_page >= call.res.total
         /\ (call.res.total_pages - 1) * call.args.per_page < call.res.total \/ call.res.total = 0
         /\ call.res.total = 0 => call.res.total_pages = 0
    /\ WalkDone =>
         LET all == Concat(call.pages) IN
         /\ Len(all) = call.res.total
         /\ Range(all) = Selected
         /\ \A i, j \in DOMAIN all : i # j => all[i] # all[j]
         /\ SortedBy(all, call.args.sort)

-----------------------------------------------------------------------------
(* Overlapping runs (SpecOverlap): the scheduled job and the thread of a   *)
(* manual trigger run run_all_scrapers at once over the same provider      *)
(* answers, their steps interleaved, while a client reads the status       *)

\* GET /api/admin/scrape/status: get_last_scrape_status() returns the global
GetLastScrapeStatus ==
    /\ call = NoCall
    /\ call' = [op |-> "get_last_scrape_status", res |-> last_scrape_status]
    /\ UNCHANGED <<session, providers, jobs, nextId, now, ticks, runs, baseId, outputs, pc, idx, batch, pos,
                   inserted, results, started_at, trace, last_scrape_status, search, hashseed>>

NextOverlap ==
    \/ Tick
    \/ \E r \in Runners :
         \/ StartCounted(r)
         \/ FetchFixed(r)
         \/ UpsertStep(r)
         \/ Backfill(r)
         \/ Sweep(r)
         \/ Publish(r)
    \/ GetLastScrapeStatus
    \/ Return

\* the storage is empty or holds one of the listings from before; usajobs returns its
\* listing, adzuna any list or a failure, themuse nothing or a failure
InitOverlap ==
    /\ InitRunners
    /\ now = 0 /\ ticks = 0 /\ runs = 0
    /\ jobs \in { {}, {OldRow("adzuna", "e1", ContentBPN)} }
    /\ nextId = 2
    /\ baseId = nextId
    /\ providers = <<>>
    /\ outputs \in { <<a, b, c, d, d>> :
                       a \in Answers(Scrapers[1], 0) \ {Returned(<<>>)},
                       b \in Responses(Scrapers[2], 0),
                       c \in {Returned(<<>>), Raised},
                       d \in {Returned(<<>>)} }

SpecOverlap == InitOverlap /\ [][NextOverlap]_vars

-----------------------------------------------------------------------------
(* Properties of overlapping runs (SpecOverlap) *)

\* a snapshot a completed run leaves: one entry per adapter, in the order of the
\* scrapers list, with the run's two timestamps
Complete(st) ==
    /\ Len(st.results) = Len(Scrapers)
    /\ \A i \in DOMAIN st.results :
         /\ st.results[i].source = Scrapers[i]
         /\ st.results[i].errors \in {0, 1}
    /\ ~IsNone(st.started_at) /\ ~IsNone(st.completed_at)
    /\ Val(st.started_at) <= Val(st.completed_at)

\* C14: a read of the status returns the global as it is, which is the initial empty
\* snapshot or the whole snapshot of one completed run; the global changes only when
\* a run completes, and then to that run's results, started_at and completion time
C14_SnapshotWhole ==
    [][ /\ (call.op = "none" /\ call'.op = "get_last_scrape_status") =>
             /\ call'.res = last_scrape_status
             /\ call'.res = NoStatus \/ Complete(call'.res)
        /\ last_scrape_status' # last_scrape_status =>
             \E r \in Runners :
               /\ pc[r] = "publish" /\ pc'[r] = "idle"
               /\ last_scrape_status' = [results |-> results[r],
                                         started_at |-> Some(started_at[r]),
                                         completed_at |-> Some(now)]
               /\ Complete(last_scrape_status') ]_vars

\* C14 witness: the status read is the snapshot of a completed run while the other
\* runner, started later, is inside its loop with a partial results list
C14_Witness ==
    /\ call.op = "get_last_scrape_status"
    /\ Complete(call.res)
    /\ \E r \in Runners :
         /\ pc[r] = "upsert"
         /\ results[r] # <<>>
         /\ started_at[r] > Val(call.res.started_at)

\* both runners have left the loop over the scrapers, in the first two runs
BothCounted == runs = 2 /\ \A r \in Runners : pc[r] \in {"backfill", "sweep", "publish"}

\* the keys stored before the runs
StoredBefore == { KeyOf(r) : r \in { x \in jobs : x.id < baseId } }

\* what the two runs counted as added for adapter i, together
AddedByBoth(i) == results["scheduled"][i].jobs_added + results["manual"][i].jobs_added

\* a stored row holds the field values of job_data
Holds(row, job_data) ==
    [row EXCEPT !.id = 0, !.search_vector = None, !.is_active = TRUE] = NewRow(job_data, 0)

\* C15 as claimed: when two runs overlap on the same listings, each fetched key is
\* stored exactly once and is counted as added by exactly one of the two runs and as
\* skipped by the other
C15_Original ==
    BothCounted => \A i \in DOMAIN Scrapers : ~outputs[i].raised =>
        /\ \A k \in KeysOf(i) : Cardinality(RowsWithKey(k)) = 1
        /\ AddedByBoth(i) = Cardinality(KeysOf(i))
        /\ \A r \in Runners :
             results[r][i].jobs_added + results[r][i].jobs_skipped = Len(outputs[i].jobs)

\* C15 as amended: when two runs overlap on the same listings, under every
\* interleaving each fetched key is stored exactly once; a key that was not stored
\* before is counted as added by exactly one of the two runs, a key stored before by
\* none; every other encounter is counted as skipped; a row stored by the runs holds
\* the field values of one fetched listing of its key
C15_OverlapAddsOnce ==
    BothCounted =>
      /\ \A i \in DOMAIN Scrapers : ~outputs[i].raised =>
           /\ \A k \in KeysOf(i) : Cardinality(RowsWithKey(k)) = 1
           /\ AddedByBoth(i) = Cardinality(KeysOf(i) \ StoredBefore)
           /\ \A r \in Runners :
                results[r][i].jobs_added + results[r][i].jobs_skipped = Len(outputs[i].jobs)
      /\ \A row \in jobs : row.id >= baseId =>
           \E i \in DOMAIN Scrapers : \E n \in DOMAIN outputs[i].jobs :
             Holds(row, outputs[i].jobs[n])
      /\ Cardinality(jobs) = Cardinality({ KeyOf(row) : row \in jobs })

\* C15 witness: the runs interleaved: the scheduled run added the usajobs listing and
\* the manual run the adzuna listing, each skipping what the other added
C15_Witness ==
    /\ BothCounted
    /\ results["scheduled"][1].jobs_added = 1 /\ results["manual"][1].jobs_skipped = 1
    /\ results["manual"][2].jobs_added = 1 /\ results["scheduled"][2].jobs_skipped = 2

-----------------------------------------------------------------------------
(* The helpers of BaseScraper (scrapers/base.py).  A Python str is the     *)
(* sequence of its characters.                                             *)

UpperCase == <<"A", "B", "C", "D", "E", "F", "G", "H", "I", "J", "K", "L", "M",
               "N", "O", "P", "Q", "R", "S", "T", "U", "V", "W", "X", "Y", "Z">>

LowerCase == <<"a", "b", "c", "d", "e", "f", "g", "h", "i", "j", "k", "l", "m",
               "n", "o", "p", "q", "r", "s", "t", "u", "v", "w", "x", "y", "z">>

Digits == <<"0", "1", "2", "3", "4", "5", "6", "7", "8", "9">>

IsUpper(c) == \E i \in DOMAIN UpperCase : UpperCase[i] = c

IsDigit(c) == \E i \in DOMAIN Digits : Digits[i] = c

\* a character of \w
IsWordChar(c) == IsUpper(c) \/ IsDigit(c) \/ c = "_" \/ \E i \in DOMAIN LowerCase : LowerCase[i] = c

\* a character of \s
IsSpace(c) == c = " "

\* str.lower()
str_lower(s) ==
    [i \in DOMAIN s |-> IF IsUpper(s[i])
                        THEN LowerCase[CHOOSE k \in DOMAIN UpperCase : UpperCase[k] = s[i]]
                        ELSE s[i]]

\* str.strip()
str_strip(s) ==
    LET solid == { i \in DOMAIN s : ~IsSpace(s[i]) } IN
    IF solid = {} THEN <<>>
    ELSE SubSeq(s, CHOOSE i \in solid : \A j \in solid : i <= j,
                   CHOOSE i \in solid : \A j \in solid : i >= j)

\* key in s: key occurs in s as a substring
Contains(s, key) ==
    \E i \in 1..(Len(s) - Len(key) + 1) : SubSeq(s, i, i + Len(key) - 1) = key

\* US_STATES, in the order of the dict literal: <<abbreviation, name>>
US_STATES == <<
    <<<<"A", "L">>, <<"A", "l", "a", "b", "a", "m", "a">>>>,
    <<<<"A", "K">>, <<"A", "l", "a", "s", "k", "a">>>>,
    <<<<"A", "Z">>, <<"A", "r", "i", "z", "o", "n", "a">>>>,
    <<<<"A", "R">>, <<"A", "r", "k", "a", "n", "s", "a", "s">>>>,
    <<<<"C", "A">>, <<"C", "a", "l", "i", "f", "o", "r", "n", "i", "a">>>>,
    <<<<"C", "O">>, <<"C", "o", "l", "o", "r", "a", "d", "o">>>>,
    <<<<"C", "T">>, <<"C", "o", "n", "n", "e", "c", "t", "i", "c", "u", "t">>>>,
    <<<<"D", "E">>, <<"D", "e", "l", "a", "w", "a", "r", "e">>>>,
    <<<<"F", "L">>, <<"F", "l", "o", "r", "i", "d", "a">>>>,
    <<<<"G", "A">>, <<"G", "e", "o", "r", "g", "i", "a">>>>,
    <<<<"H", "I">>, <<"H", "a", "w", "a", "i", "i">>>>,
    <<<<"I", "D">>, <<"I", "d", "a", "h", "o">>>>,
    <<<<"I", "L">>, <<"I", "l", "l", "i", "n", "o", "i", "s">>>>,
    <<<<"I", "N">>, <<"I", "n", "d", "i", "a", "n", "a">>>>,
    <<<<"I", "A">>, <<"I", "o", "w", "a">>>>,
    <<<<"K", "S">>, <<"K", "a", "n", "s", "a", "s">>>>,
    <<<<"K", "Y">>, <<"K", "e", "n", "t", "u", "c", "k", "y">>>>,
    <<<<"L", "A">>, <<"L", "o", "u", "i", "s", "i", "a", "n", "a">>>>,
    <<<<"M", "E">>, <<"M", "a", "i", "n", "e">>>>,
    <<<<"M", "D">>, <<"M", "a", "r", "y", "l", "a", "n", "d">>>>,
    <<<<"M", "A">>, <<"M", "a", "s", "s", "a", "c", "h", "u", "s", "e", "t", "t", "s">>>>,
    <<<<"M", "I">>, <<"M", "i", "c", "h", "i", "g", "a", "n">>>>,
    <<<<"M", "N">>, <<"M", "i", "n", "n", "e", "s", "o", "t", "a">>>>,
    <<<<"M", "S">>, <<"M", "i", "s", "s", "i", "s", "s", "i", "p", "p", "i">>>>,
    <<<<"M", "O">>, <<"M", "i", "s", "s", "o", "u", "r", "i">>>>,
    <<<<"M", "T">>, <<"M", "o", "n", "t", "a", "n", "a">>>>,
    <<<<"N", "E">>, <<"N", "e", "b", "r", "a", "s", "k", "a">>>>,
    <<<<"N", "V">>, <<"N", "e", "v", "a", "d", "a">>>>,
    <<<<"N", "H">>, <<"N", "e", "w", " ", "H", "a", "m", "p", "s", "h", "i", "r", "e">>>>,
    <<<<"N", "J">>, <<"N", "e", "w", " ", "J", "e", "r", "s", "e", "y">>>>,
    <<<<"N", "M">>, <<"N", "e", "w", " ", "M", "e", "x", "i", "c", "o">>>>,
    <<<<"N", "Y">>, <<"N", "e", "w", " ", "Y", "o", "r", "k">>>>,
    <<<<"N", "C">>, <<"N", "o", "r", "t", "h", " ", "C", "a", "r", "o", "l", "i", "n", "a">>>>,
    <<<<"N", "D">>, <<"N", "o", "r", "t", "h", " ", "D", "a", "k", "o", "t", "a">>>>,
    <<<<"O", "H">>, <<"O", "h", "i", "o">>>>,
    <<<<"O", "K">>, <<"O", "k", "l", "a", "h", "o", "m", "a">>>>,
    <<<<"O", "R">>, <<"O", "r", "e", "g", "o", "n">>>>,
    <<<<"P", "A">>, <<"P", "e", "n", "n", "s", "y", "l", "v", "a", "n", "i", "a">>>>,
    <<<<"R", "I">>, <<"R", "h", "o", "d", "e", " ", "I", "s", "l", "a", "n", "d">>>>,
    <<<<"S", "C">>, <<"S", "o", "u", "t", "h", " ", "C", "a", "r", "o", "l", "i", "n", "a">>>>,
    <<<<"S", "D">>, <<"S", "o", "u", "t", "h", " ", "D", "a", "k", "o", "t", "a">>>>,
    <<<<"T", "N">>, <<"T", "e", "n", "n", "e", "s", "s", "e", "e">>>>,
    <<<<"T", "X">>, <<"T", "e", "x", "a", "s">>>>,
    <<<<"U", "T">>, <<"U", "t", "a", "h">>>>,
    <<<<"V", "T">>, <<"V", "e", "r", "m", "o", "n", "t">>>>,
    <<<<"V", "A">>, <<"V", "i", "r", "g", "i", "n", "i", "a">>>>,
    <<<<"W", "A">>, <<"W", "a", "s", "h", "i", "n", "g", "t", "o", "n">>>>,
    <<<<"W", "V">>, <<"W", "e", "s", "t", " ", "V", "i", "r", "g", "i", "n", "i", "a">>>>,
    <<<<"W", "I">>, <<"W", "i", "s", "c", "o", "n", "s", "i", "n">>>>,
    <<<<"W", "Y">>, <<"W", "y", "o", "m", "i", "n", "g">>>>,
    <<<<"D", "C">>, <<"D", "i", "s", "t", "r", "i", "c", "t", " ", "o", "f", " ", "C", "o", "l", "u", "m", "b", "i", "a">>>> >>

\* STATE_ABBREVS as the list of its items in insertion order: the lower-cased names,
\* then the lower-cased abbreviations; each <<key, state name>>
STATE_ABBREVS ==
    [i \in 1..Len(US_STATES) |-> <<str_lower(US_STATES[i][2]), US_STATES[i][2]>>]
    \o [i \in 1..Len(US_STATES) |-> <<str_lower(US_STATES[i][1]), US_STATES[i][2]>>]

\* where re.search(r",\s*([A-Z]{2})\b", location) can match: a comma at i, the
\* white space after it skipped, two capitals, then no word character
AbbrevAt(location, i) ==
    LET rest == { j \in (i + 1)..Len(location) : ~IsSpace(location[j]) }
        j == CHOOSE x \in rest : \A y \in rest : x <= y
    IN  IF /\ location[i] = ","
           /\ rest # {}
           /\ j + 1 <= Len(location)
           /\ IsUpper(location[j]) /\ IsUpper(location[j + 1])
           /\ (j + 2 <= Len(location) => ~IsWordChar(location[j + 2]))
        THEN Some(SubSeq(location, j, j + 1))
        ELSE None

\* match.group(1) of the leftmost match, or None
AbbrevMatch(location) ==
    LET hits == { i \in DOMAIN location : ~IsNone(AbbrevAt(location, i)) } IN
    IF hits = {} THEN None
    ELSE AbbrevAt(location, CHOOSE i \in hits : \A k \in hits : i <= k)

\* US_STATES.get(abbrev)
StateOfAbbrev(abbrev) ==
    LET hits == { i \in DOMAIN US_STATES : US_STATES[i][1] = abbrev } IN
    IF hits = {} THEN None ELSE Some(US_STATES[CHOOSE i \in hits : TRUE][2])

\* normalize_state: the abbreviation after a comma if it is a state's; else the
\* first key of STATE_ABBREVS, in dict order, that occurs in the lower-cased text
normalize_state(location) ==
    IF location = <<>> THEN None
    ELSE IF /\ ~IsNone(AbbrevMatch(location))
            /\ ~IsNone(StateOfAbbrev(Val(AbbrevMatch(location))))
         THEN StateOfAbbrev(Val(AbbrevMatch(location)))
    ELSE LET hits == { i \in DOMAIN STATE_ABBREVS :
                         Contains(str_lower(location), STATE_ABBREVS[i][1]) }
         IN  IF hits = {} THEN None
             ELSE Some(STATE_ABBREVS[CHOOSE i \in hits : \A k \in hits : i <= k][2])

\* location.split(",")[0]
BeforeComma(location) ==
    LET commas == { i \in DOMAIN location : location[i] = "," } IN
    IF commas = {} THEN location
    ELSE SubSeq(location, 1, (CHOOSE i \in commas : \A k \in commas : i <= k) - 1)

\* extract_city: the text before the first comma, stripped, unless it is a key of
\* STATE_ABBREVS or "united states"
extract_city(location) ==
    IF location = <<>> THEN None
    ELSE LET city == str_strip(BeforeComma(location)) IN
         IF /\ \A i \in DOMAIN STATE_ABBREVS : STATE_ABBREVS[i][1] # str_lower(city)
            /\ str_lower(city) # <<"u", "n", "i", "t", "e", "d", " ", "s", "t", "a", "t", "e", "s">>
         THEN Some(city)
         ELSE None

-----------------------------------------------------------------------------
(* parse_salary (scrapers/base.py) *)

HoursPerYear == 2080    \* n * 2080
SalaryFloor == 100      \* float(n) > 100

DigitVal(c) == (CHOOSE i \in DOMAIN Digits : Digits[i] = c) - 1

\* the number a run of digits writes
IntVal(ds) ==
    LET RECURSIVE val(_)
        val(n) == IF n = 0 THEN 0 ELSE 10 * val(n - 1) + DigitVal(ds[n])
    IN  val(Len(ds))

\* the last index of the run of digits starting at i; i - 1 if there is none
RunEnd(s, i) ==
    LET stops == { j \in i..Len(s) : ~IsDigit(s[j]) } IN
    IF stops = {} THEN Len(s) ELSE (CHOOSE j \in stops : \A k \in stops : j <= k) - 1

\* re.findall(r'[\d,]+\.?\d*', s) on a text without commas: each match as
\* [int |-> the digits before the point, frac |-> the digits after it]
FindNumbers(s) ==
    LET RECURSIVE scan(_)
        scan(i) ==
            IF i > Len(s) THEN <<>>
            ELSE IF ~IsDigit(s[i]) THEN scan(i + 1)
            ELSE LET j == RunEnd(s, i)
                     dot == j + 1 <= Len(s) /\ s[j + 1] = "."
                     e == IF dot THEN RunEnd(s, j + 2) ELSE j
                 IN  <<[int |-> SubSeq(s, i, j),
                        frac |-> IF dot THEN SubSeq(s, j + 2, e) ELSE <<>>]>> \o scan(e + 1)
    IN  scan(1)

\* float(n) > 100
AboveFloor(n) ==
    \/ IntVal(n.int) > SalaryFloor
    \/ (IntVal(n.int) = SalaryFloor /\ \E i \in DOMAIN n.frac : n.frac[i] # "0")

\* re.search(r"(?i)(hour|hr|/hr|per hour)", salary_str)
HasHourly(s) ==
    \/ Contains(str_lower(s), <<"h", "o", "u", "r">>)
    \/ Contains(str_lower(s), <<"h", "r">>)
    \/ Contains(str_lower(s), <<"/", "h", "r">>)
    \/ Contains(str_lower(s), <<"p", "e", "r", " ", "h", "o", "u", "r">>)

SeqMin(ns) == CHOOSE x \in Range(ns) : \A y \in Range(ns) : x <= y

SeqMax(ns) == CHOOSE x \in Range(ns) : \A y \in Range(ns) : x >= y

\* the tail of parse_salary: min and max of the numbers kept
MinMax(numbers) ==
    IF Len(numbers) >= 2 THEN <<Some(SeqMin(numbers)), Some(SeqMax(numbers))>>
    ELSE IF Len(numbers) = 1 THEN <<Some(numbers[1]), Some(numbers[1])>>
    ELSE <<None, None>>

\* the numbers of the text above 100, as int(float(n))
KeptNumbers(salary_str) ==
    LET found == FindNumbers(SelectSeq(salary_str, LAMBDA c : c # ","))
        kept == SelectSeq(found, AboveFloor)
    IN  [i \in DOMAIN kept |-> IntVal(kept[i].int)]

\* mutant of parse_salary: no annualization of hourly rates
parse_salary_flat(salary_str) ==
    IF salary_str = <<>> THEN <<None, None>> ELSE MinMax(KeptNumbers(salary_str))

\* parse_salary: numbers above 100, times 2080 under an hourly marker, then min/max
parse_salary(salary_str) ==
    IF salary_str = <<>> THEN <<None, None>>
    ELSE LET numbers == KeptNumbers(salary_str)
             annual == IF HasHourly(salary_str)
                       THEN [i \in DOMAIN numbers |-> numbers[i] * HoursPerYear]
                       ELSE numbers
         IN  MinMax(annual)

-----------------------------------------------------------------------------
(* Calls of the helpers on provider texts (SpecParse) *)

MaxParts == 3       \* space separated parts of a drawn salary text

\* the parts salary texts are made of
SalaryParts == {
    <<"$", "8", "0", ",", "0", "0", "0">>,
    <<"-">>,
    <<"$", "1", "0", "0", ",", "0", "0", "0">>,
    <<"$", "4", "5", "/", "h", "o", "u", "r">>,
    <<"C", "o", "m", "p", "e", "t", "i", "t", "i", "v", "e">>,
    <<"$", "1", "5", "0", "/", "h", "r">>,
    <<"$", "1", "0", "0", ".", "5", "0">>,
    <<"$", "1", "0", "0">>,
    <<"4", "0", "1", "k">>,
    <<"t", "h", "r", "o", "u", "g", "h">> }

\* " ".join(parts)
Join(parts) ==
    LET RECURSIVE join(_)
        join(n) == IF n = 0 THEN <<>>
                   ELSE IF n = 1 THEN parts[1]
                   ELSE join(n - 1) \o <<" ">> \o parts[n]
    IN  join(Len(parts))

SalaryTexts == { Join(parts) : parts \in SeqsUpTo(SalaryParts, MaxParts) }

\* the location texts of the listings
Locations == {
    <<>>,
    <<"S", "a", "n", " ", "F", "r", "a", "n", "c", "i", "s", "c", "o", ",", " ", "C", "A">>,
    <<"R", "e", "m", "o", "t", "e">>,
    <<"A", "u", "s", "t", "i", "n", ",", " ", "T", "X">>,
    <<"T", "e", "x", "a", "s">>,
    <<"U", "n", "i", "t", "e", "d", " ", "S", "t", "a", "t", "e", "s">>,
    <<"P", "a", "r", "i", "s", ",", " ", "F", "R">>,
    <<"W", "a", "s", "h", "i", "n", "g", "t", "o", "n", ",", " ", "D", "C">>,
    <<"W", "o", "r", "l", "d", "w", "i", "d", "e">>,
    <<"U", "S", "A">>,
    <<",", " ", "C", "A">> }

InitParse ==
    /\ InitStore
    /\ InitRunners
    /\ providers = <<>>
    /\ outputs = <<>>

\* parse_salary(salary_str) is called and returns
ParseSalary(salary_str) ==
    /\ call = NoCall
    /\ call' = [op |-> "parse_salary", args |-> salary_str, res |-> parse_salary(salary_str)]
    /\ UNCHANGED <<session, providers, jobs, nextId, now, ticks, runs, baseId, outputs, pc, idx, batch, pos,
                   inserted, results, started_at, trace, last_scrape_status, search, hashseed>>

\* city = extract_city(location_str); state = normalize_state(location_str)
ParseLocation(location) ==
    /\ call = NoCall
    /\ call' = [op |-> "location", args |-> location,
                city |-> extract_city(location), state |-> normalize_state(location)]
    /\ UNCHANGED <<session, providers, jobs, nextId, now, ticks, runs, baseId, outputs, pc, idx, batch, pos,
                   inserted, results, started_at, trace, last_scrape_status, search, hashseed>>

NextParse ==
    \/ \E salary_str \in SalaryTexts : ParseSalary(salary_str)
    \/ \E location \in Locations : ParseLocation(location)
    \/ Return

SpecParse == InitParse /\ [][NextParse]_vars

-----------------------------------------------------------------------------
(* Properties of the helpers (SpecParse) *)

ParsedSalary == call.op = "parse_salary"

ParsedLocation == call.op = "location"

HourlyFixture == <<"$", "4", "5", "/", "h", "o", "u", "r">>

RangeFixture == <<"$", "8", "0", ",", "0", "0", "0", " ", "-", " ", "$", "1", "0", "0", ",", "0", "0", "0">>

\* the text holds an hourly marker and one number, an integer
OneHourlyRate(s) ==
    /\ HasHourly(s)
    /\ Len(FindNumbers(SelectSeq(s, LAMBDA c : c # ","))) = 1
    /\ FindNumbers(SelectSeq(s, LAMBDA c : c # ","))[1].frac = <<>>

\* C18 as claimed: on a text with an hourly marker parse_salary returns the hourly
\* number times 2080, so "$45/hour" gives (93600, 93600)
C18_Claim ==
    ParsedSalary =>
      /\ call.args = HourlyFixture => call.res = <<Some(93600), Some(93600)>>
      /\ OneHourlyRate(call.args) =>
           LET n == IntVal(FindNumbers(SelectSeq(call.args, LAMBDA c : c # ","))[1].int)
           IN  call.res = <<Some(n * HoursPerYear), Some(n * HoursPerYear)>>

\* the values parse_salary may return for the text: the numbers above 100, times
\* 2080 if the text has an hourly marker
Amounts(s) ==
    { n * (IF HasHourly(s) THEN HoursPerYear ELSE 1) : n \in Range(KeptNumbers(s)) }

\* C19 as claimed: parse_salary returns (min, max) of the numbers of the text above
\* 100 when two or more remain, (n, n) for one, (null, null) for none or empty text
C19_Original ==
    ParsedSalary =>
      LET kept == KeptNumbers(call.args) IN
      /\ Len(kept) >= 2 => call.res = <<Some(SeqMin(kept)), Some(SeqMax(kept))>>
      /\ Len(kept) = 1 => call.res = <<Some(kept[1]), Some(kept[1])>>
      /\ Len(kept) = 0 => call.res = <<None, None>>

\* C19 as amended: parse_salary returns (null, null) when the text is empty or no
\* number above 100 remains; otherwise the least and the greatest of the numbers above
\* 100, each truncated to an integer and, when the text holds an hourly marker,
\* multiplied by 2080; "$80,000 - $100,000" gives (80000, 100000) and "Competitive"
\* gives (null, null)
C19_MinMaxOfKept ==
    ParsedSalary =>
      /\ Amounts(call.args) = {} => call.res = <<None, None>>
      /\ Amounts(call.args) # {} =>
           /\ ~IsNone(call.res[1]) /\ ~IsNone(call.res[2])
           /\ Val(call.res[1]) \in Amounts(call.args)
           /\ Val(call.res[2]) \in Amounts(call.args)
           /\ \A x \in Amounts(call.args) : Val(call.res[1]) <= x /\ x <= Val(call.res[2])
      /\ call.args = RangeFixture => call.res = <<Some(80000), Some(100000)>>
      /\ call.args = <<"C", "o", "m", "p", "e", "t", "i", "t", "i", "v", "e">> => call.res = <<None, None>>
      /\ call.args = <<>> => call.res = <<None, None>>

\* C19 witness: a text with an hourly marker and two numbers above 100 was parsed to
\* two different annual amounts
C19_Witness ==
    /\ ParsedSalary
    /\ HasHourly(call.args)
    /\ Len(KeptNumbers(call.args)) = 2
    /\ ~IsNone(call.res[1])
    /\ Val(call.res[1]) < Val(call.res[2])

\* C20 as claimed: "San Francisco, CA" gives city "San Francisco" and state
\* "California"; "Remote" gives city null and state null
C20_Claim ==
    ParsedLocation =>
      /\ call.args = <<"S", "a", "n", " ", "F", "r", "a", "n", "c", "i", "s", "c", "o", ",", " ", "C", "A">> =>
           /\ call.city = Some(<<"S", "a", "n", " ", "F", "r", "a", "n", "c", "i", "s", "c", "o">>)
           /\ call.state = Some(<<"C", "a", "l", "i", "f", "o", "r", "n", "i", "a">>)
      /\ call.args = <<"R", "e", "m", "o", "t", "e">> =>
           /\ call.city = None
           /\ call.state = None

-----------------------------------------------------------------------------
(* The adapters' _parse_job, as far as it derives external_id and the      *)
(* salary columns, and the ingestion of parsed listings over restarts of   *)
(* the process (SpecIngest)                                                *)

MaxRows == 2        \* rows the table holds at most

\* the seeds a Python process can draw for str hashing at its start
Seeds == {1, 2}

\* the number of a listing's hashed text (title, company, location)
TextNo(c) == CASE c = ContentSBE -> 1 [] c = ContentBPN -> 2 [] OTHER -> 3

\* str(hash(text)) in a process with the given seed: the same in one process, and
\* depending on the seed across processes
str_hash(seed, c) ==
    << <<"h1-1", "h1-2", "h1-3">>, <<"h2-1", "h2-2", "h2-3">> >>[seed][TextNo(c)]

HashIds == { str_hash(seed, c) : seed \in Seeds, c \in Contents }

\* bool(x) of an optional number
Truthy(x) == ~IsNone(x) /\ Val(x) # 0

\* item.get("id", hash(title + company)) and its like: the provider's id if the
\* payload has one, else the hash of the listing's text
external_id_of(item, seed) ==
    IF ~IsNone(item.id) THEN Val(item.id) ELSE str_hash(seed, item.content)

\* AdzunaScraper._parse_job: int(item["salary_min"]) if item.get("salary_min") else None
adzuna_salary(item) ==
    <<IF Truthy(item.salary_min) THEN item.salary_min ELSE None,
      IF Truthy(item.salary_max) THEN item.salary_max ELSE None>>

\* USAJobsScraper._parse_job: MinimumRange and MaximumRange, annualized for "Per Hour"
usajobs_salary(item) ==
    IF item.rate = "Per Hour" /\ Truthy(item.salary_min)
    THEN <<Some(Val(item.salary_min) * HoursPerYear),
           IF Truthy(item.salary_max) THEN Some(Val(item.salary_max) * HoursPerYear)
                                      ELSE Some(Val(item.salary_min) * HoursPerYear)>>
    ELSE <<item.salary_min, item.salary_max>>

\* the salary columns _parse_job of the source gives the job dict
salary_of(source, item) ==
    CASE source = "adzuna" -> adzuna_salary(item)
      [] source = "usajobs" -> usajobs_salary(item)
      [] source = "themuse" -> <<None, None>>
      [] OTHER -> parse_salary(item.salary)

\* _parse_job of the source's adapter at time t, in a process with the given seed
_parse_job(source, item, seed, t) ==
    [JobData(source, external_id_of(item, seed), item.content, t) EXCEPT
        !.salary_min = salary_of(source, item)[1],
        !.salary_max = salary_of(source, item)[2]]

\* a provider payload: id, listing, and the salary fields the adapters read
Item(id, c, lo, hi, rate, text) ==
    [id |-> id, content |-> c, salary_min |-> lo, salary_max |-> hi, rate |-> rate,
     salary |-> text]

\* the payloads a provider can return
AdzunaItems ==
    { Item(id, ContentSBE, p[1], p[2], "", <<>>) :
        id \in {None, Some("e1")},
        p \in { <<Some(80000), Some(100000)>>, <<Some(100000), Some(80000)>>,
                <<Some(0), Some(80000)>> } }

USAJobsItems ==
    { Item(id, ContentSBE, p[1], p[2], p[3], <<>>) :
        id \in {None, Some("e1")},
        p \in { <<Some(45), Some(50), "Per Hour">>, <<Some(50), None, "Per Hour">>,
                <<Some(100000), Some(80000), "Per Year">> } }

GoogleItems ==
    { Item(None, ContentSBE, None, None, "", text) :
        text \in { <<>>, RangeFixture, HourlyFixture } }

Items(source) ==
    CASE source = "adzuna" -> AdzunaItems
      [] source = "usajobs" -> USAJobsItems
      [] source = "google_jobs" -> GoogleItems
      [] OTHER -> { }

InitIngest ==
    /\ InitStore
    /\ InitRunners
    /\ providers = <<>>
    /\ outputs = <<>>

\* a fetched payload is parsed and upserted
Ingest(source, item) ==
    LET job_data == _parse_job(source, item, hashseed, now)
        u == upsert_job(jobs, job_data, nextId)
    IN  /\ Cardinality(jobs) < MaxRows \/ Conflict(jobs, job_data)
        /\ jobs' = u.tbl
        /\ nextId' = IF u.ret THEN nextId + 1 ELSE nextId
        /\ call' = [op |-> "upsert_job", res |-> u.ret]
        /\ UNCHANGED <<session, providers, now, ticks, runs, baseId, outputs, pc, idx, batch, pos, inserted,
                       results, started_at, trace, last_scrape_status, search, hashseed>>

\* the process is restarted (a deploy, a crash): a new process draws its hash seed
Restart ==
    /\ hashseed' \in Seeds
    /\ call' = NoCall
    /\ UNCHANGED <<session, providers, jobs, nextId, now, ticks, runs, baseId, outputs, pc, idx, batch, pos,
                   inserted, results, started_at, trace, last_scrape_status, search>>

NextIngest ==
    \/ \E source \in Range(Scrapers) : \E item \in Items(source) : Ingest(source, item)
    \/ Restart

SpecIngest == InitIngest /\ [][NextIngest]_vars

-----------------------------------------------------------------------------
(* Properties of the parsed listings (SpecIngest) *)

\* the row's external_id was derived by hashing
Derived(r) == r.external_id \in HashIds

\* the rows are of one listing of one source
SameListing(r1, r2) ==
    /\ r1.source = r2.source
    /\ r1.title = r2.title /\ r1.company = r2.company
    /\ r1.location_state = r2.location_state

\* C16 as claimed: a listing without a provider id derives the same external_id at
\* every fetch, in the same or a later process, so its second ingest is skipped and
\* the listing is stored once
C16_Claim ==
    \A r1, r2 \in jobs :
      (Derived(r1) /\ Derived(r2) /\ SameListing(r1, r2)) => r1 = r2

\* C17 as claimed: a stored job with both salary columns present has
\* salary_min <= salary_max
C17_Claim ==
    \A r \in jobs :
      (~IsNone(r.salary_min) /\ ~IsNone(r.salary_max)) => Val(r.salary_min) <= Val(r.salary_max)

-----------------------------------------------------------------------------
(* BaseScraper.categorize, detect_experience and detect_work_type: ordered *)
(* rules of the shape (?i)\b(alt|alt|...)\b, searched in the text          *)

\* "." in a pattern: any character (the texts hold no newline)
AnyChar == "ANY"

\* \b at position p of the text, between text[p-1] and text[p]
WordBoundary(text, p) ==
    LET before == p > 1 /\ IsWordChar(text[p - 1])
        after == p <= Len(text) /\ IsWordChar(text[p])
    IN  before # after

\* the alternative matches the text from position i on
AltAt(text, alt, i) ==
    /\ i + Len(alt) - 1 <= Len(text)
    /\ \A k \in DOMAIN alt : alt[k] = AnyChar \/ alt[k] = text[i + k - 1]

\* re.search(r"(?i)\b(alt|alt|...)\b", text) finds a match
re_search(alts, text) ==
    LET low == str_lower(text) IN
    \E a \in DOMAIN alts : \E i \in 1..Len(low) :
      /\ AltAt(low, alts[a], i)
      /\ WordBoundary(low, i)
      /\ WordBoundary(low, i + Len(alts[a]))

\* the rule lists, in the order of the source; an alternative x.?y is written as the
\* two alternatives x.y and xy, and \. as the character "."
CATEGORY_RULES == <<
    [label |-> "AI & Machine Learning",
     alts |-> <<
            <<"m", "a", "c", "h", "i", "n", "e", " ", "l", "e", "a", "r", "n", "i", "n", "g">>,
            <<"m", "l", " ", "e", "n", "g", "i", "n", "e", "e", "r">>,
            <<"a", "i", " ", "e", "n", "g", "i", "n", "e", "e", "r">>,
            <<"d", "e", "e", "p", " ", "l", "e", "a", "r", "n", "i", "n", "g">>,
            <<"n", "l", "p">>,
            <<"c", "o", "m", "p", "u", "t", "e", "r", " ", "v", "i", "s", "i", "o", "n">>>>],
    [label |-> "Data Science & Analytics",
     alts |-> <<
            <<"d", "a", "t", "a", " ", "s", "c", "i", "e", "n">>,
            <<"d", "a", "t", "a", " ", "a", "n", "a", "l", "y">>,
            <<"a", "n", "a", "l", "y", "t", "i", "c", "s">>,
            <<"b", "u", "s", "i", "n", "e", "s", "s", " ", "i", "n", "t", "e", "l", "l", "i", "g", "e", "n", "c", "e">>,
            <<"b", "i", " ", "d", "e", "v", "e", "l", "o", "p", "e", "r">>>>],
    [label |-> "Data Engineering",
     alts |-> <<
            <<"d", "a", "t", "a", " ", "e", "n", "g", "i", "n", "e", "e", "r">>,
            <<"e", "t", "l">>,
            <<"d", "a", "t", "a", " ", "p", "i", "p", "e", "l", "i", "n", "e">>,
            <<"d", "a", "t", "a", " ", "p", "l", "a", "t", "f", "o", "r", "m">>,
            <<"d", "b", "t">>,
            <<"a", "i", "r", "f", "l", "o", "w">>>>],
    [label |-> "DevOps & Infrastructure",
     alts |-> <<
            <<"d", "e", "v", "o", "p", "s">>,
            <<"s", "r", "e">>,
            <<"s", "i", "t", "e", " ", "r", "e", "l", "i", "a", "b", "i", "l", "i", "t", "y">>,
            <<"i", "n", "f", "r", "a", "s", "t", "r", "u", "c", "t", "u", "r", "e">>,
            <<"p", "l", "a", "t", "f", "o", "r", "m", " ", "e", "n", "g", "i", "n", "e", "e", "r">>,
            <<"c", "i", "c", "d">>,
            <<"c", "i", "/", "c", "d">>>>],
    [label |-> "Cybersecurity",
     alts |-> <<
            <<"c", "y", "b", "e", "r">>,
            <<"s", "e", "c", "u", "r", "i", "t", "y">>,
            <<"i", "n", "f", "o", "s", "e", "c">>,
            <<"s", "o", "c", " ", "a", "n", "a", "l", "y", "s", "t">>,
            <<"p", "e", "n", "e", "t", "r", "a", "t", "i", "o", "n">>,
            <<"v", "u", "l", "n", "e", "r", "a", "b", "i", "l", "i", "t", "y">>>>],
    [label |-> "Cloud Computing",
     alts |-> <<
            <<"c", "l", "o", "u", "d">>,
            <<"a", "w", "s">>,
            <<"a", "z", "u", "r", "e">>,
            <<"g", "c", "p">>,
            <<"c", "l", "o", "u", "d", " ", "e", "n", "g", "i", "n", "e", "e", "r">>,
            <<"c", "l", "o", "u", "d", " ", "a", "r", "c", "h", "i", "t", "e", "c", "t">>>>],
    [label |-> "Frontend Development",
     alts |-> <<
            <<"f", "r", "o", "n", "t", "e", "n", "d">>,
            <<"f", "r", "o", "n", "t", "-", "e", "n", "d">>,
            <<"r", "e", "a", "c", "t">>,
            <<"a", "n", "g", "u", "l", "a", "r">>,
            <<"v", "u", "e">>,
            <<"u", "i", " ", "d", "e", "v", "e", "l", "o", "p", "e", "r">>>>],
    [label |-> "Backend Development",
     alts |-> <<
            <<"b", "a", "c", "k", "e", "n", "d">>,
            <<"b", "a", "c", "k", "-", "e", "n", "d">>,
            <<"s", "e", "r", "v", "e", "r", "-", "s", "i", "d", "e">>,
            <<"a", "p", "i", " ", "d", "e", "v", "e", "l", "o", "p", "e", "r">>>>],
    [label |-> "Full Stack Development",
     alts |-> <<
            <<"f", "u", "l", "l", "ANY", "s", "t", "a", "c", "k">>,
            <<"f", "u", "l", "l", "s", "t", "a", "c", "k">>,
            <<"f", "u", "l", "l", "s", "t", "a", "c", "k">>>>],
    [label |-> "Mobile Development",
     alts |-> <<
            <<"m", "o", "b", "i", "l", "e">>,
            <<"i", "o", "s">>,
            <<"a", "n", "d", "r", "o", "i", "d">>,
            <<"s", "w", "i", "f", "t">>,
            <<"k", "o", "t", "l", "i", "n">>,
            <<"f", "l", "u", "t", "t", "e", "r">>,
            <<"r", "e", "a", "c", "t", " ", "n", "a", "t", "i", "v", "e">>>>],
    [label |-> "Quality Assurance",
     alts |-> <<
            <<"q", "a">>,
            <<"q", "u", "a", "l", "i", "t", "y", " ", "a", "s", "s", "u", "r", "a", "n", "c", "e">>,
            <<"t", "e", "s", "t", " ", "e", "n", "g", "i", "n", "e", "e", "r">>,
            <<"s", "d", "e", "t">>,
            <<"a", "u", "t", "o", "m", "a", "t", "i", "o", "n", " ", "t", "e", "s", "t">>>>],
    [label |-> "IT Operations & Support",
     alts |-> <<
            <<"n", "e", "t", "w", "o", "r", "k">>,
            <<"s", "y", "s", "t", "e", "m", "s", " ", "a", "d", "m", "i", "n">>,
            <<"i", "t", " ", "s", "u", "p", "p", "o", "r", "t">>,
            <<"h", "e", "l", "p", "d", "e", "s", "k">>,
            <<"d", "e", "s", "k", "t", "o", "p", " ", "s", "u", "p", "p", "o", "r", "t">>,
            <<"i", "t", " ", "s", "p", "e", "c", "i", "a", "l", "i", "s", "t">>>>],
    [label |-> "Product & Project Management",
     alts |-> <<
            <<"p", "r", "o", "d", "u", "c", "t", " ", "m", "a", "n", "a", "g", "e", "r">>,
            <<"p", "r", "o", "g", "r", "a", "m", " ", "m", "a", "n", "a", "g", "e", "r">>,
            <<"p", "r", "o", "j", "e", "c", "t", " ", "m", "a", "n", "a", "g", "e", "r">>,
            <<"s", "c", "r", "u", "m", " ", "m", "a", "s", "t", "e", "r">>,
            <<"a", "g", "i", "l", "e">>>>],
    [label |-> "UI/UX Design",
     alts |-> <<
            <<"u", "i", "/", "u", "x">>,
            <<"u", "x", " ", "d", "e", "s", "i", "g", "n">>,
            <<"u", "i", " ", "d", "e", "s", "i", "g", "n">>,
            <<"u", "s", "e", "r", " ", "e", "x", "p", "e", "r", "i", "e", "n", "c", "e">>,
            <<"u", "s", "e", "r", " ", "i", "n", "t", "e", "r", "f", "a", "c", "e">>,
            <<"p", "r", "o", "d", "u", "c", "t", " ", "d", "e", "s", "i", "g", "n">>>>],
    [label |-> "Software Engineering",
     alts |-> <<
            <<"s", "o", "f", "t", "w", "a", "r", "e", " ", "e", "n", "g", "i", "n", "e", "e", "r">>,
            <<"s", "o", "f", "t", "w", "a", "r", "e", " ", "d", "e", "v", "e", "l", "o", "p", "e", "r">>,
            <<"d", "e", "v", "e", "l", "o", "p", "e", "r">>,
            <<"p", "r", "o", "g", "r", "a", "m", "m", "e", "r">>,
            <<"s", "w", "e">>>>],
    [label |-> "Database Administration",
     alts |-> <<
            <<"d", "a", "t", "a", "b", "a", "s", "e">>,
            <<"s", "q", "l">>,
            <<"d", "b", "a">>,
            <<"d", "a", "t", "a", "b", "a", "s", "e", " ", "a", "d", "m", "i", "n">>>>],
    [label |-> "Embedded & IoT",
     alts |-> <<
            <<"e", "m", "b", "e", "d", "d", "e", "d">>,
            <<"f", "i", "r", "m", "w", "a", "r", "e">>,
            <<"h", "a", "r", "d", "w", "a", "r", "e">>,
            <<"i", "o", "t">>>>],
    [label |-> "Blockchain & Web3",
     alts |-> <<
            <<"b", "l", "o", "c", "k", "c", "h", "a", "i", "n">>,
            <<"w", "e", "b", "3">>,
            <<"c", "r", "y", "p", "t", "o">>,
            <<"s", "o", "l", "i", "d", "i", "t", "y">>>>]
>>

EXPERIENCE_RULES == <<
    [label |-> "intern",
     alts |-> <<
            <<"i", "n", "t", "e", "r", "n">>,
            <<"i", "n", "t", "e", "r", "n", "s", "h", "i", "p">>,
            <<"c", "o", "-", "o", "p">>>>],
    [label |-> "entry",
     alts |-> <<
            <<"e", "n", "t", "r", "y", "ANY", "l", "e", "v", "e", "l">>,
            <<"j", "u", "n", "i", "o", "r">>,
            <<"j", "r", ".">>,
            <<"a", "s", "s", "o", "c", "i", "a", "t", "e">>,
            <<"n", "e", "w", " ", "g", "r", "a", "d">>,
            <<"g", "r", "a", "d", "u", "a", "t", "e">>>>],
    [label |-> "mid",
     alts |-> <<
            <<"m", "i", "d", "ANY", "l", "e", "v", "e", "l">>,
            <<"m", "i", "d", "-", "s", "e", "n", "i", "o", "r">>,
            <<"i", "n", "t", "e", "r", "m", "e", "d", "i", "a", "t", "e">>>>],
    [label |-> "senior",
     alts |-> <<
            <<"s", "e", "n", "i", "o", "r">>,
            <<"s", "r", ".">>,
            <<"l", "e", "a", "d">>,
            <<"s", "t", "a", "f", "f">>,
            <<"p", "r", "i", "n", "c", "i", "p", "a", "l">>>>],
    [label |-> "executive",
     alts |-> <<
            <<"d", "i", "r", "e", "c", "t", "o", "r">>,
            <<"v", "p">>,
            <<"v", "i", "c", "e", " ", "p", "r", "e", "s", "i", "d", "e", "n", "t">>,
            <<"h", "e", "a", "d", " ", "o", "f">>,
            <<"c", "h", "i", "e", "f">>,
            <<"c", "t", "o">>,
            <<"c", "i", "o">>>>]
>>

WORK_TYPE_RULES == <<
    [label |-> "remote",
     alts |-> <<
            <<"r", "e", "m", "o", "t", "e">>,
            <<"w", "o", "r", "k", " ", "f", "r", "o", "m", " ", "h", "o", "m", "e">>,
            <<"w", "f", "h">>,
            <<"a", "n", "y", "w", "h", "e", "r", "e">>,
            <<"d", "i", "s", "t", "r", "i", "b", "u", "t", "e", "d">>>>],
    [label |-> "hybrid",
     alts |-> <<
            <<"h", "y", "b", "r", "i", "d">>,
            <<"f", "l", "e", "x", "i", "b", "l", "e">>,
            <<"p", "a", "r", "t", "l", "y", " ", "r", "e", "m", "o", "t", "e">>>>],
    [label |-> "onsite",
     alts |-> <<
            <<"o", "n", "ANY", "s", "i", "t", "e">>,
            <<"o", "n", "s", "i", "t", "e">>,
            <<"i", "n", "ANY", "o", "f", "f", "i", "c", "e">>,
            <<"i", "n", "o", "f", "f", "i", "c", "e">>,
            <<"i", "n", "-", "p", "e", "r", "s", "o", "n">>>>]
>>


\* for pattern, label in rules: if re.search(pattern, text): return label
\* return default
RECURSIVE first_match(_, _, _, _)
first_match(rules, text, k, default) ==
    IF k > Len(rules) THEN default
    ELSE IF re_search(rules[k].alts, text) THEN rules[k].label
    ELSE first_match(rules, text, k + 1, default)

RECURSIVE last_match(_, _, _, _)
last_match(rules, text, k, default) ==
    IF k = 0 THEN default
    ELSE IF re_search(rules[k].alts, text) THEN rules[k].label
    ELSE last_match(rules, text, k - 1, default)

categorize_last(title, description) ==
    last_match(CATEGORY_RULES, title \o <<" ">> \o description, Len(CATEGORY_RULES),
               "Other Tech")

categorize(title, description) ==
    first_match(CATEGORY_RULES, title \o <<" ">> \o description, 1, "Other Tech")

detect_experience(title, description) ==
    first_match(EXPERIENCE_RULES, title \o <<" ">> \o description, 1, "mid")

detect_work_type(title, description, location) ==
    first_match(WORK_TYPE_RULES, title \o <<" ">> \o description \o <<" ">> \o location, 1,
                "onsite")

-----------------------------------------------------------------------------
(* The classifiers on a range of titles, descriptions and locations        *)
(* (SpecClassify)                                                          *)

Titles == {
    <<>>,
    <<"S", "e", "n", "i", "o", "r", " ", "F", "u", "l", "l", " ", "S", "t", "a", "c", "k", " ", "D", "e", "v", "e", "l", "o", "p", "e", "r">>,
    <<"D", "a", "t", "a", " ", "S", "c", "i", "e", "n", "t", "i", "s", "t">>,
    <<"J", "r", ".", " ", "B", "a", "c", "k", "e", "n", "d", " ", "D", "e", "v", "e", "l", "o", "p", "e", "r">>,
    <<"R", "e", "m", "o", "t", "e", " ", "I", "n", "t", "e", "r", "n">>,
    <<"V", "P", " ", "o", "f", " ", "E", "n", "g", "i", "n", "e", "e", "r", "i", "n", "g">>,
    <<"S", "r", ".", " ", "D", "a", "t", "a", " ", "E", "n", "g", "i", "n", "e", "e", "r">>,
    <<"A", "c", "c", "o", "u", "n", "t", "a", "n", "t">> }

Descriptions == {
    <<>>,
    <<"H", "y", "b", "r", "i", "d", " ", "r", "o", "l", "e", ",", " ", "m", "a", "c", "h", "i", "n", "e", " ", "l", "e", "a", "r", "n", "i", "n", "g">>,
    <<"O", "n", "-", "s", "i", "t", "e", " ", "l", "e", "a", "d">>,
    <<"e", "n", "t", "r", "y", " ", "l", "e", "v", "e", "l">> }

LocationTexts == {
    <<>>,
    <<"R", "e", "m", "o", "t", "e">>,
    <<"A", "u", "s", "t", "i", "n", ",", " ", "T", "X">>,
    <<"A", "n", "y", "w", "h", "e", "r", "e">> }

InitClassify ==
    /\ InitStore
    /\ InitRunners
    /\ providers = <<>>
    /\ outputs = <<>>

\* an adapter's _parse_job classifies a listing
Classify(title, description, location) ==
    /\ call = NoCall
    /\ call' = [op |-> "classify", title |-> title, description |-> description,
                location |-> location,
                category |-> categorize(title, description),
                experience_level |-> detect_experience(title, description),
                work_type |-> detect_work_type(title, description, location)]
    /\ UNCHANGED <<session, providers, jobs, nextId, now, ticks, runs, baseId, outputs, pc, idx, batch, pos,
                   inserted, results, started_at, trace, last_scrape_status, search, hashseed>>

NextClassify ==
    \/ \E title \in Titles, description \in Descriptions, location \in LocationTexts :
         Classify(title, description, location)
    \/ Return

SpecClassify == InitClassify /\ [][NextClassify]_vars

-----------------------------------------------------------------------------
(* Properties of the classifiers (SpecClassify) *)

Classified == call.op = "classify"

\* the labels of a rule list
Labels(rules) == { rules[k].label : k \in DOMAIN rules }

\* the label is that of the first rule of the list matching the text, or the default
\* when no rule matches
IsFirstMatch(rules, text, default, label) ==
    \/ \E k \in DOMAIN rules :
         /\ re_search(rules[k].alts, text)
         /\ \A j \in 1..(k - 1) : ~re_search(rules[j].alts, text)
         /\ label = rules[k].label
    \/ /\ \A k \in DOMAIN rules : ~re_search(rules[k].alts, text)
       /\ label = default

FullStackTitle == <<"S", "e", "n", "i", "o", "r", " ", "F", "u", "l", "l", " ", "S", "t", "a", "c", "k", " ", "D", "e", "v", "e", "l", "o", "p", "e", "r">>

\* C21: categorize, detect_experience and detect_work_type answer every input with the
\* label of the first matching rule of their list, or with their default ("Other Tech",
\* "mid", "onsite") when no rule matches, always a value of their enumeration; the
\* title "Senior Full Stack Developer" with an empty description is classified
\* "Full Stack Development" and "senior"
C21_FirstMatchWins ==
    Classified =>
      LET td == call.title \o <<" ">> \o call.description
          tdl == td \o <<" ">> \o call.location
      IN  /\ IsFirstMatch(CATEGORY_RULES, td, "Other Tech", call.category)
          /\ IsFirstMatch(EXPERIENCE_RULES, td, "mid", call.experience_level)
          /\ IsFirstMatch(WORK_TYPE_RULES, tdl, "onsite", call.work_type)
          /\ call.category \in Labels(CATEGORY_RULES) \cup {"Other Tech"}
          /\ call.experience_level \in {"intern", "entry", "mid", "senior", "executive"}
          /\ call.work_type \in {"remote", "hybrid", "onsite"}
          /\ (call.title = FullStackTitle /\ call.description = <<>>) =>
               /\ call.category = "Full Stack Development"
               /\ call.experience_level = "senior"

\* the title of the example was classified, and a later rule of the list matches it too
C21_Witness ==
    /\ Classified
    /\ call.title = FullStackTitle /\ call.description = <<>>
    /\ call.category = "Full Stack Development"
    /\ \E k \in DOMAIN CATEGORY_RULES :
         /\ CATEGORY_RULES[k].label = "Software Engineering"
         /\ re_search(CATEGORY_RULES[k].alts, call.title \o <<" ">>)

-----------------------------------------------------------------------------
(* The adapters' fetch_jobs: the provider answers request by request, an    *)
(* answer is a list of items or a failure (network, auth, rate limit)      *)

MaxRequests == 2    \* keywords, categories and pages per fetch the model runs through

\* an item of a response: a listing _parse_job can read, a mapping that lacks the
\* title, and something that is no mapping (a string, null)
GoodItem(ext, c) == [kind |-> "job", item |-> Item(Some(ext), c, None, None, "", <<>>)]
NoTitle == [kind |-> "no_title"]
NotMapping == [kind |-> "not_mapping"]

\* a response: its items, and whether the request failed; the items of a failed
\* response are those a streamed dataset delivered before it failed
Ok(items) == [failed |-> FALSE, items |-> items]
Failed == [failed |-> TRUE, items |-> <<>>]
Broken(items) == [failed |-> TRUE, items |-> items]

\* the provider's answer to request k of a fetch; past the script there are no results
ResponseAt(script, k) == IF k \in DOMAIN script THEN script[k] ELSE Ok(<<>>)

\* job = self._parse_job(item); if job: jobs.append(job), over the items: _parse_job
\* returns None for a missing title and, by its except, for an item it cannot read
ParsedJobs(source, items, seed, t) ==
    LET good == SelectSeq(items, LAMBDA it : it.kind = "job")
    IN  [i \in DOMAIN good |-> _parse_job(source, good[i].item, seed, t)]

\* the first item that is no mapping, 0 if there is none: item.get(...) outside
\* _parse_job raises AttributeError on it
FirstNotMapping(items) ==
    LET bad == { i \in DOMAIN items : items[i].kind = "not_mapping" }
    IN  IF bad = {} THEN 0 ELSE CHOOSE i \in bad : \A j \in bad : i <= j

\* if job["external_id"] not in seen_ids: seen_ids.add(...); all_jobs.append(job)
RECURSIVE AddUnseen(_, _)
AddUnseen(acc, js) ==
    IF js = <<>> THEN acc
    ELSE AddUnseen(IF \E i \in DOMAIN acc : acc[i].external_id = Head(js).external_id
                   THEN acc ELSE Append(acc, Head(js)),
                   Tail(js))

\* USAJobsScraper._search: a failed request raises, and so does an item that is no
\* mapping (item.get outside _parse_job); the jobs of that keyword are lost
usajobs_search(resp, seed, t) ==
    IF resp.failed \/ FirstNotMapping(resp.items) # 0
    THEN [raised |-> TRUE, jobs |-> <<>>]
    ELSE [raised |-> FALSE, jobs |-> ParsedJobs("usajobs", resp.items, seed, t)]

\* USAJobsScraper.fetch_jobs, the loop over SEARCH_KEYWORDS: an exception of a
\* keyword is logged and the loop goes on
RECURSIVE usajobs_loop(_, _, _, _, _)
usajobs_loop(script, k, all_jobs, seed, t) ==
    IF k > MaxRequests THEN all_jobs
    ELSE usajobs_loop(script, k + 1,
                      AddUnseen(all_jobs, usajobs_search(ResponseAt(script, k), seed, t).jobs),
                      seed, t)

\* AdzunaScraper.fetch_jobs, the loop over the pages: a page without jobs and a
\* failed request end it
RECURSIVE adzuna_loop(_, _, _, _, _)
adzuna_loop(script, page, all_jobs, seed, t) ==
    IF page > MaxRequests THEN [jobs |-> all_jobs, requests |-> MaxRequests]
    ELSE LET resp == ResponseAt(script, page)
             page_jobs == ParsedJobs("adzuna", resp.items, seed, t)
         IN  IF resp.failed \/ page_jobs = <<>>
             THEN [jobs |-> all_jobs, requests |-> page]
             ELSE adzuna_loop(script, page + 1, all_jobs \o page_jobs, seed, t)

\* TheMuseScraper._fetch_category, the loop over the pages of category c: a failed
\* request, an empty page and an item that is no mapping end it, the jobs appended
\* before are returned
RECURSIVE themuse_category(_, _, _, _, _, _)
themuse_category(script, c, page, category_jobs, seed, t) ==
    IF page > MaxRequests THEN category_jobs
    ELSE LET resp == ResponseAt(script, (c - 1) * MaxRequests + page)
             bad == FirstNotMapping(resp.items)
         IN  IF resp.failed \/ resp.items = <<>> THEN category_jobs
             ELSE IF bad # 0
             THEN category_jobs \o ParsedJobs("themuse", SubSeq(resp.items, 1, bad - 1), seed, t)
             ELSE themuse_category(script, c, page + 1,
                                   category_jobs \o ParsedJobs("themuse", resp.items, seed, t),
                                   seed, t)

\* TheMuseScraper.fetch_jobs, the loop over TECH_CATEGORIES
RECURSIVE themuse_loop(_, _, _, _, _)
themuse_loop(script, c, all_jobs, seed, t) ==
    IF c > MaxRequests THEN all_jobs
    ELSE themuse_loop(script, c + 1,
                      all_jobs \o themuse_category(script, c, 1, <<>>, seed, t), seed, t)

\* RemotiveScraper._fetch_category: as _search of USAJobs, one request per category
remotive_category(resp, seed, t) ==
    IF resp.failed \/ FirstNotMapping(resp.items) # 0
    THEN [raised |-> TRUE, jobs |-> <<>>]
    ELSE [raised |-> FALSE, jobs |-> ParsedJobs("remotive", resp.items, seed, t)]

\* RemotiveScraper.fetch_jobs, the loop over TECH_CATEGORIES
RECURSIVE remotive_loop(_, _, _, _, _)
remotive_loop(script, c, all_jobs, seed, t) ==
    IF c > MaxRequests THEN all_jobs
    ELSE remotive_loop(script, c + 1,
                       all_jobs \o remotive_category(ResponseAt(script, c), seed, t).jobs,
                       seed, t)

\* ApifyGoogleJobsScraper.fetch_jobs after the token check: one actor run whose
\* dataset is iterated; an exception of the call or of the iteration returns []
google_run(resp, seed, t) ==
    IF resp.failed THEN <<>>
    ELSE AddUnseen(<<>>, ParsedJobs("google_jobs", resp.items, seed, t))

\* mutant of fetch_jobs: the credentials are not looked at
fetch_jobs_unchecked(source, p, seed, t) ==
    CASE source = "usajobs" ->
           [jobs |-> usajobs_loop(p.script, 1, <<>>, seed, t), requests |-> MaxRequests]
      [] source = "adzuna" -> adzuna_loop(p.script, 1, <<>>, seed, t)
      [] source = "themuse" ->
           [jobs |-> themuse_loop(p.script, 1, <<>>, seed, t), requests |-> MaxRequests]
      [] source = "remotive" ->
           [jobs |-> remotive_loop(p.script, 1, <<>>, seed, t), requests |-> MaxRequests]
      [] OTHER -> [jobs |-> google_run(ResponseAt(p.script, 1), seed, t), requests |-> 1]

\* scraper.fetch_jobs() of the source's adapter, configured and answered as p says:
\* the list it returns and the number of requests it sent (for themuse and remotive
\* at least that many).  USAJobs, Adzuna and Apify return [] at once when a
\* credential is missing.  No adapter lets an exception out.
fetch_jobs(source, p, seed, t) ==
    CASE source = "usajobs" ->
           IF ~p.creds THEN [jobs |-> <<>>, requests |-> 0]
           ELSE [jobs |-> usajobs_loop(p.script, 1, <<>>, seed, t), requests |-> MaxRequests]
      [] source = "adzuna" ->
           IF ~p.creds THEN [jobs |-> <<>>, requests |-> 0]
           ELSE adzuna_loop(p.script, 1, <<>>, seed, t)
      [] source = "themuse" ->
           [jobs |-> themuse_loop(p.script, 1, <<>>, seed, t), requests |-> MaxRequests]
      [] source = "remotive" ->
           [jobs |-> remotive_loop(p.script, 1, <<>>, seed, t), requests |-> MaxRequests]
      [] OTHER ->
           IF ~p.creds THEN [jobs |-> <<>>, requests |-> 0]
           ELSE [jobs |-> google_run(ResponseAt(p.script, 1), seed, t), requests |-> 1]

-----------------------------------------------------------------------------
(* A run over adapters that fetch from their providers (SpecFetch): one     *)
(* adapter's credentials and provider answers vary, the others are          *)
(* configured and answer with one listing                                   *)

\* the adapters that read credentials from the environment
NeedsCreds == {"usajobs", "adzuna", "google_jobs"}

G1 == GoodItem("e1", ContentSBE)
G2 == GoodItem("e2", ContentAI)

\* what a provider answers to the requests of a fetch; Apify takes one call
Scripts(source) ==
    IF source = "google_jobs"
    THEN { <<>>, <<Ok(<<G1, G2>>)>>, <<Failed>>, <<Broken(<<G1>>)>>,
           <<Ok(<<NotMapping, G1>>)>>, <<Ok(<<NoTitle, G1>>)>>, <<Ok(<<G1, G1>>)>> }
    ELSE { <<>>, <<Ok(<<G1, G2>>)>>, <<Ok(<<G1>>), Failed>>, <<Failed, Ok(<<G1>>)>>,
           <<Ok(<<NotMapping, G1>>), Ok(<<G2>>)>>, <<Ok(<<NoTitle, G1>>), Ok(<<G2>>)>>,
           <<Ok(<<NotMapping>>), Ok(<<G2>>)>>, <<Ok(<<G1>>), Ok(<<G1, NotMapping, G2>>)>> }

Configured(script) == [creds |-> TRUE, script |-> script]

InitFetch ==
    /\ InitStore
    /\ InitRunners
    /\ outputs = <<>>
    /\ \E i \in DOMAIN Scrapers :
         \E creds \in (IF Scrapers[i] \in NeedsCreds THEN BOOLEAN ELSE {TRUE}) :
           \E script \in Scripts(Scrapers[i]) :
             providers = [k \in DOMAIN Scrapers |->
                            IF k = i THEN [creds |-> creds, script |-> script]
                            ELSE Configured(<<Ok(<<G1>>)>>)]

\* jobs = scraper.fetch_jobs() of the current scraper, from its provider
FetchProvider(r) ==
    /\ pc[r] = "fetch"
    /\ Fetched(r, Returned(fetch_jobs(Scrapers[idx[r]], providers[idx[r]], hashseed, now).jobs))

NextFetch ==
    \/ StartCounted("scheduled")
    \/ FetchProvider("scheduled")
    \/ UpsertStep("scheduled")
    \/ Backfill("scheduled")
    \/ Sweep("scheduled")
    \/ Publish("scheduled")

SpecFetch == InitFetch /\ [][NextFetch]_vars

-----------------------------------------------------------------------------
(* Properties of the adapters' fetches within a run (SpecFetch) *)

\* the runner has just fetched from scraper number i: batch[r] is the list it got
JustFetched(r, i) ==
    /\ trace[r] # <<>>
    /\ trace[r][Len(trace[r])] = <<"fetch", Scrapers[i]>>

\* the loop over the pages goes on after this response
Continues(source, resp) ==
    /\ ~resp.failed
    /\ IF source = "adzuna" THEN \E j \in DOMAIN resp.items : resp.items[j].kind = "job"
       ELSE resp.items # <<>> /\ FirstNotMapping(resp.items) = 0

\* the adapter sends request k of the script
Requested(source, script, k) ==
    CASE source = "google_jobs" -> k = 1
      [] source = "adzuna" ->
           k <= MaxRequests /\ \A j \in 1..(k - 1) : Continues(source, script[j])
      [] source = "themuse" ->
           /\ k <= MaxRequests * MaxRequests
           /\ \A j \in 1..(k - 1) :
                (j - 1) \div MaxRequests = (k - 1) \div MaxRequests
                  => Continues(source, script[j])
      [] OTHER -> k <= MaxRequests

\* a request of the fetch failed
HitRequestError(source, p) ==
    /\ p.creds
    /\ \E k \in DOMAIN p.script : p.script[k].failed /\ Requested(source, p.script, k)

\* the external ids of the listings among the items
GoodIds(items) == { Val(items[j].item.id) : j \in { j \in DOMAIN items : items[j].kind = "job" } }

\* the external ids of the jobs of a list
IdsOf(js) == { js[j].external_id : j \in DOMAIN js }

\* every item of the script is a listing
AllListings(script) ==
    \A k \in DOMAIN script : \A j \in DOMAIN script[k].items : script[k].items[j].kind = "job"

\* the listings a fetch had received when request k failed: those of the requests
\* before, and those a streamed response delivered before it broke
ReceivedBefore(script, k) ==
    UNION { GoodIds(script[j].items) : j \in 1..(k - 1) } \cup GoodIds(script[k].items)

\* C22 as claimed: an adapter that hit a request error in its fetch has errors >= 1 in
\* its entry of the run's results
C22_Claim ==
    \A r \in Runners : \A i \in DOMAIN results[r] :
      HitRequestError(Scrapers[i], providers[i]) => results[r][i].errors >= 1

\* C24 as claimed: a fetch in which a request failed after jobs were accumulated
\* returns the jobs accumulated so far
C24_Claim ==
    \A r \in Runners : \A i \in DOMAIN Scrapers :
      LET p == providers[i] IN
      (JustFetched(r, i) /\ p.creds /\ AllListings(p.script)) =>
        \A k \in DOMAIN p.script :
          (p.script[k].failed /\ Requested(Scrapers[i], p.script, k)
             /\ ReceivedBefore(p.script, k) # {})
            => ReceivedBefore(p.script, k) \subseteq IdsOf(batch[r])

\* C25: an adapter whose credentials are missing sends no request and returns [],
\* its entry of the results is jobs_added = 0, jobs_skipped = 0, errors = 0, and the
\* run goes on through all the adapters
C25_MissingCredentialsSkip ==
    \A r \in Runners :
      /\ \A i \in DOMAIN Scrapers :
           (JustFetched(r, i) /\ Scrapers[i] \in NeedsCreds /\ ~providers[i].creds) =>
             /\ fetch_jobs(Scrapers[i], providers[i], hashseed, now).requests = 0
             /\ batch[r] = <<>>
      /\ \A i \in DOMAIN results[r] :
           (Scrapers[i] \in NeedsCreds /\ ~providers[i].creds) =>
             results[r][i] = OkResult(Scrapers[i], 0, 0)
      /\ pc[r] \in {"backfill", "sweep", "publish"} =>
           /\ Len(results[r]) = Len(Scrapers)
           /\ \A i \in DOMAIN Scrapers :
                \E n \in DOMAIN trace[r] : trace[r][n] = <<"fetch", Scrapers[i]>>

\* a run ends in which an adapter had no credentials and a later adapter added a job
C25_Witness ==
    /\ pc["scheduled"] = "publish"
    /\ \E i \in DOMAIN Scrapers :
         /\ Scrapers[i] \in NeedsCreds /\ ~providers[i].creds
         /\ providers[i].script # <<>>
         /\ results["scheduled"][i] = OkResult(Scrapers[i], 0, 0)
         /\ \E j \in DOMAIN Scrapers : j > i /\ results["scheduled"][j].jobs_added = 1

\* C26 as claimed: when no request fails, every listing of every response the
\* adapter is given is among the jobs the fetch returns, whatever malformed items
\* the responses hold beside it
C26_Claim ==
    \A r \in Runners : \A i \in DOMAIN Scrapers :
      LET p == providers[i]
          source == Scrapers[i] IN
      (JustFetched(r, i) /\ p.creds /\ \A k \in DOMAIN p.script : ~p.script[k].failed) =>
        \A k \in DOMAIN p.script :
          (k <= MaxRequests /\ (source = "google_jobs" => k = 1))
            => GoodIds(p.script[k].items) \subseteq IdsOf(batch[r])

-----------------------------------------------------------------------------
(* A run in which the storage can fail (SpecFail): an upsert, the          *)
(* search-vector backfill or the expiry sweep raises                       *)

\* upsert_job raises inside upsert_jobs_bulk (db.execute or db.commit fails): nothing
\* of this job is stored, the rows committed before stay, the except branch of the
\* scraper's try appends the error entry and the loop goes on.  The session is left
\* usable, or with the failed transaction pending: the code never rolls back, and
\* which of the two depends on the failure
UpsertFails(r) ==
    /\ pc[r] = "upsert"
    /\ LET source == Scrapers[idx[r]] IN
       /\ results' = [results EXCEPT ![r] = Append(@, ErrResult(source))]
       /\ trace' = [trace EXCEPT ![r] = Append(@, <<"upsert_raise", source>>)]
    /\ idx' = [idx EXCEPT ![r] = @ + 1]
    /\ pc' = [pc EXCEPT ![r] = AfterScraper(idx[r])]
    /\ \E s \in (IF session[r] = "open" THEN {"open", "failed"} ELSE {"failed"}) :
         session' = [session EXCEPT ![r] = s]
    /\ UNCHANGED <<providers, call, hashseed, jobs, nextId, now, ticks, runs, baseId, outputs,
                   batch, pos, inserted, started_at, last_scrape_status, search>>

\* mutant of Abort: the exception is swallowed and the status is written
Abort_snapshot(r) ==
    /\ last_scrape_status' = [results |-> results[r],
                              started_at |-> Some(started_at[r]),
                              completed_at |-> Some(now)]
    /\ pc' = [pc EXCEPT ![r] = "idle"]
    /\ idx' = [idx EXCEPT ![r] = 1]
    /\ batch' = [batch EXCEPT ![r] = <<>>]
    /\ pos' = [pos EXCEPT ![r] = 1]
    /\ inserted' = [inserted EXCEPT ![r] = 0]
    /\ results' = [results EXCEPT ![r] = <<>>]
    /\ started_at' = [started_at EXCEPT ![r] = 0]
    /\ trace' = [trace EXCEPT ![r] = <<>>]
    /\ UNCHANGED <<session, providers, call, hashseed, jobs, nextId, now, ticks, runs, baseId,
                   outputs, search>>

\* an exception raised after the loop leaves run_all_scrapers: finally: db.close(),
\* the lines after it are not reached and the locals are gone
Abort(r) ==
    /\ session' = [session EXCEPT ![r] = "closed"]
    /\ pc' = [pc EXCEPT ![r] = "idle"]
    /\ idx' = [idx EXCEPT ![r] = 1]
    /\ batch' = [batch EXCEPT ![r] = <<>>]
    /\ pos' = [pos EXCEPT ![r] = 1]
    /\ inserted' = [inserted EXCEPT ![r] = 0]
    /\ results' = [results EXCEPT ![r] = <<>>]
    /\ started_at' = [started_at EXCEPT ![r] = 0]
    /\ trace' = [trace EXCEPT ![r] = <<>>]
    /\ UNCHANGED <<providers, call, hashseed, jobs, nextId, now, ticks, runs, baseId, outputs,
                   last_scrape_status, search>>

\* update_search_vectors(db) raises: its UPDATE or its commit fails, as every
\* statement does on a session whose failed transaction is pending
BackfillFails(r) ==
    /\ pc[r] = "backfill"
    /\ Abort(r)

\* expire_old_jobs(db, days=45) raises
SweepFails(r) ==
    /\ pc[r] = "sweep"
    /\ Abort(r)

\* the first adapter returns one or two listings, the second one listing or an
\* exception, the others nothing; the table is empty or holds the first listing
InitFail ==
    /\ InitRunners
    /\ now = 0 /\ ticks = 0 /\ runs = 0
    /\ \/ jobs = {} /\ nextId = 1
       \/ jobs = {OldRow("usajobs", "e1", ContentSBE)} /\ nextId = 2
    /\ baseId = nextId
    /\ providers = <<>>
    /\ outputs \in { <<a, b, c, c, c>> :
                       a \in { Returned(<<JobData("usajobs", "e1", ContentSBE, 0)>>),
                               Returned(<<JobData("usajobs", "e1", ContentSBE, 0),
                                          JobData("usajobs", "e2", ContentAI, 0)>>) },
                       b \in { Returned(<<JobData("adzuna", "e1", ContentBPN, 0)>>), Raised },
                       c \in { Returned(<<>>) } }

NextFail ==
    \/ StartCounted("scheduled")
    \/ FetchFixed("scheduled")
    \/ UpsertStep("scheduled")
    \/ UpsertFails("scheduled")
    \/ Backfill("scheduled")
    \/ BackfillFails("scheduled")
    \/ Sweep("scheduled")
    \/ SweepFails("scheduled")
    \/ Publish("scheduled")

SpecFail == InitFail /\ [][NextFail]_vars

-----------------------------------------------------------------------------
(* Properties of a run over a storage that can fail (SpecFail) *)

\* the number of scraper s in the scrapers list
IndexOf(s) == CHOOSE i \in DOMAIN Scrapers : Scrapers[i] = s

\* the event is the call of an adapter's fetch_jobs, returned or raised
IsFetch(e) == e[1] \in {"fetch", "raise"}

\* the event is a call of upsert_job, returned or raised
IsUpsert(e) == e[1] \in {"upsert", "upsert_raise"}

\* the loop over the scrapers is behind the runner
PastLoop(r) == pc[r] \in {"backfill", "sweep", "publish"}

\* C23 as claimed: after an upsert raised, no adapter is fetched or ingested in the
\* rest of that run
C23_Original ==
    \A r \in Runners : \A n, m \in DOMAIN trace[r] :
      (n < m /\ trace[r][n][1] = "upsert_raise")
        => ~IsFetch(trace[r][m]) /\ ~IsUpsert(trace[r][m])

\* C23, amended: an upsert that raises ends the batch of its adapter only: the
\* adapter's entry is errors = 1 with jobs_added = 0 and jobs_skipped = 0, no further
\* job of that batch is upserted, and every adapter after it is still fetched
C23_FailureEndsBatchOnly ==
    \A r \in Runners : \A n \in DOMAIN trace[r] :
      trace[r][n][1] = "upsert_raise" =>
        LET i == IndexOf(trace[r][n][2]) IN
        /\ results[r][i].errors = 1
        /\ results[r][i].jobs_added = 0 /\ results[r][i].jobs_skipped = 0
        /\ \A m \in DOMAIN trace[r] : (m > n /\ IsUpsert(trace[r][m])) => trace[r][m][2] # Scrapers[i]
        /\ PastLoop(r) =>
             \A j \in (i + 1)..Len(Scrapers) :
               \E m \in DOMAIN trace[r] : m > n /\ IsFetch(trace[r][m]) /\ trace[r][m][2] = Scrapers[j]

\* an upsert of the first adapter raised and a later adapter inserted a job
C23_Witness ==
    /\ PastLoop("scheduled")
    /\ \E n \in DOMAIN trace["scheduled"] : trace["scheduled"][n] = <<"upsert_raise", Scrapers[1]>>
    /\ results["scheduled"][2].jobs_added = 1

\* the events of the run's trace that are fetches, in order
Fetches(r) == SelectSeq(trace[r], IsFetch)

InsertedOf(source) == { row \in jobs : row.source = source /\ row.id >= baseId }

\* the jobs the adapter of entry number i returned
ReturnedBy(i) == outputs[i].jobs

\* C28 as claimed: in the snapshot of a run (here the first), jobs_added of every entry
\* is the number of rows the adapter's batch inserted, and entries with errors = 0
\* have jobs_added + jobs_skipped = the number of jobs the adapter returned
C28_Claim ==
    (runs = 1 /\ last_scrape_status # NoStatus) =>
      \A i \in DOMAIN last_scrape_status.results :
        LET e == last_scrape_status.results[i] IN
        /\ e.jobs_added = Cardinality(InsertedOf(e.source))
        /\ e.errors = 0 => e.jobs_added + e.jobs_skipped = Len(ReturnedBy(i))

\* C30: a run that the backfill or the sweep ends with an exception closes its
\* session, writes no status (last_scrape_status changes only in the last step of a
\* run that got through) and leaves every stored row as it is
C30_FailedRunWritesNothing ==
    [][\A r \in Runners :
         /\ (pc[r] \in {"backfill", "sweep"} /\ pc'[r] = "idle") =>
              /\ last_scrape_status' = last_scrape_status
              /\ session'[r] = "closed"
              /\ jobs' = jobs
         /\ (pc[r] # "publish" /\ pc[r] # "idle" /\ \A q \in Runners \ {r} : pc[q] = "idle") =>
              last_scrape_status' = last_scrape_status]_vars

\* the first run has ended without a snapshot, its session is closed and a row it
\* inserted is stored
C30_Witness ==
    /\ runs = 1
    /\ pc["scheduled"] = "idle"
    /\ last_scrape_status = NoStatus
    /\ session["scheduled"] = "closed"
    /\ \E row \in jobs : row.id >= baseId

-----------------------------------------------------------------------------
(* Overlapping runs over providers whose answers change from fetch to      *)
(* fetch (SpecFresh): the scheduled run and a triggered one                *)

InitFresh ==
    /\ InitRunners
    /\ now = 0 /\ ticks = 0 /\ runs = 0
    /\ jobs \in { {}, {OldRow("adzuna", "e1", ContentBPN)} }
    /\ nextId = 2
    /\ baseId = nextId
    /\ providers = <<>>
    /\ outputs = <<>>

\* the fetch of the current scraper: USAJobs answers with any list it can give, the
\* other providers have nothing new
FetchFresh(r) ==
    /\ pc[r] = "fetch"
    /\ \E resp \in (IF Scrapers[idx[r]] = "usajobs" THEN Answers("usajobs", now)
                    ELSE {Returned(<<>>)}) : Fetched(r, resp)

NextFresh ==
    \E r \in Runners :
      \/ StartCounted(r)
      \/ FetchFresh(r)
      \/ UpsertStep(r)
      \/ Backfill(r)
      \/ Sweep(r)
      \/ Publish(r)

SpecFresh == InitFresh /\ [][NextFresh]_vars

-----------------------------------------------------------------------------
(* Properties of the search-vector backfill over overlapping runs          *)
(* (SpecFresh)                                                             *)

Indexed(row) == ~IsNone(row.search_vector)

\* C29 as claimed: when a run reaches its status write every stored job has a search
\* vector
C29_Original ==
    \A r \in Runners : pc[r] = "publish" => \A row \in jobs : Indexed(row)

\* C29, amended: when the backfill of a run is done every job stored at that moment,
\* so every job the run inserted, has a search vector; and a search vector once
\* computed is never changed or cleared.  A job that another, overlapping run
\* inserts after this backfill has none until that run's own backfill
C29_BackfillIndexesStored ==
    [][/\ \A r \in Runners :
            (pc[r] = "backfill" /\ pc'[r] = "sweep") => \A row \in jobs' : Indexed(row)
       /\ \A row \in jobs :
            Indexed(row) =>
              \E kept \in jobs' : kept.id = row.id /\ kept.search_vector = row.search_vector]_vars

\* a run is at its status write, a job it found stored was indexed before and a job
\* inserted since the initial state is indexed now
C29_Witness ==
    /\ \E r \in Runners : pc[r] = "publish"
    /\ \E row \in jobs : row.id < baseId /\ Indexed(row)
    /\ \E row \in jobs : row.id >= baseId /\ Indexed(row)

====
